---------------------------- MODULE Spec2Model ----------------------------
(***************************************************************************)
(* PromptAudit: the experiment runner (core/runner.py), its metrics        *)
(* accumulator (evaluation/metrics.py), the verdict parser                 *)
(* (evaluation/label_parser.py) and the dashboard's run/stop handlers      *)
(* (ui/dashboard.py), as one state machine.                                *)
(*                                                                         *)
(* A Python str is a sequence of one-character strings; a Python value is  *)
(* a record [t |-> type name, v |-> characters].                           *)
(***************************************************************************)
EXTENDS Integers, Sequences, FiniteSets, TLC

(***************************************************************************)
(* Bounds of the model.                                                    *)
(***************************************************************************)
\* at most this many datasets, models and prompts in the selection of a run
MaxDatasets == 3
MaxModels == 2
MaxPrompts == 2
\* the datasets loaded in one batch hold at most this many samples in all,
\* each counted once per (model, prompt) pair that will run on it
MaxWork == 2
\* a text handed to parse_verdict on its own has at most this many lines
MaxLines == 2
\* a Metrics object handed to add on its own has counters up to this
MaxCount == 1
\* the calls of add on one Metrics object that is followed on its own
MaxAdds == 10

(***************************************************************************)
(* Python values and strings.                                              *)
(***************************************************************************)
PyStr(s) == [t |-> "str", v |-> s]
PyNone == [t |-> "NoneType", v |-> <<>>]

Lowers == <<"a", "b", "c", "d", "e", "f", "g", "h", "i", "j", "k", "l", "m",
            "n", "o", "p", "q", "r", "s", "t", "u", "v", "w", "x", "y", "z">>
Uppers == <<"A", "B", "C", "D", "E", "F", "G", "H", "I", "J", "K", "L", "M",
            "N", "O", "P", "Q", "R", "S", "T", "U", "V", "W", "X", "Y", "Z">>
Digits == {"0", "1", "2", "3", "4", "5", "6", "7", "8", "9"}

IsUpper(c) == \E k \in 1..Len(Uppers) : Uppers[k] = c
IsLower(c) == \E k \in 1..Len(Lowers) : Lowers[k] = c
\* str.isalpha on one character
IsAlpha(c) == IsUpper(c) \/ IsLower(c)
\* the characters str.strip / str.split / the regex class \s treat as space
IsSpace(c) == c \in {" ", "\t", "\n", "\r"}
\* the characters str.splitlines breaks at
IsLineBreak(c) == c \in {"\n", "\r"}
\* the regex class \w
IsWordChar(c) == IsAlpha(c) \/ c \in Digits \/ c = "_"

LowerCh(c) == IF IsUpper(c) THEN Lowers[CHOOSE k \in 1..Len(Uppers) : Uppers[k] = c] ELSE c
\* str.lower
LowerStr(s) == [k \in 1..Len(s) |-> LowerCh(s[k])]

\* str(x): a str is itself, None prints as "None"
Str(x) == IF x.t = "str" THEN x.v ELSE <<"N", "o", "n", "e">>
\* bool(x): the empty string and None are falsy
Truthy(x) == x.t = "str" /\ Len(x.v) > 0

\* first position >= p holding a character that is not a space (Len(s)+1 if none)
RECURSIVE SkipSpaces(_, _)
SkipSpaces(s, p) ==
    IF p > Len(s) \/ ~IsSpace(s[p]) THEN p ELSE SkipSpaces(s, p + 1)

\* last position <= p holding a character that is not a space (0 if none)
RECURSIVE SkipSpacesBack(_, _)
SkipSpacesBack(s, p) ==
    IF p < 1 \/ ~IsSpace(s[p]) THEN p ELSE SkipSpacesBack(s, p - 1)

\* str.strip
Strip(s) == SubSeq(s, SkipSpaces(s, 1), SkipSpacesBack(s, Len(s)))

\* the pieces of s between the characters satisfying the break test, from p on,
\* cur being the piece read so far
RECURSIVE SplitAt(_, _, _, _)
SplitAt(s, p, cur, lineMode) ==
    IF p > Len(s) THEN <<cur>>
    ELSE IF (IF lineMode THEN IsLineBreak(s[p]) ELSE IsSpace(s[p]))
         THEN <<cur>> \o SplitAt(s, p + 1, <<>>, lineMode)
         ELSE SplitAt(s, p + 1, Append(cur, s[p]), lineMode)

NonEmpty(seq) == SelectSeq(seq, LAMBDA x : Len(x) > 0)

\* [ln.strip() for ln in text.splitlines() if ln.strip()]
StrippedLines(text) ==
    LET raw == SplitAt(text, 1, <<>>, TRUE)
    IN  NonEmpty([k \in 1..Len(raw) |-> Strip(raw[k])])

\* str.split(): the whitespace-separated words
SplitWords(s) == NonEmpty(SplitAt(s, 1, <<>>, FALSE))

\* "".join(ch for ch in w if ch.isalpha())
AlphaOnly(w) == SelectSeq(w, IsAlpha)

\* s holds w from position p on
StartsAt(s, p, w) ==
    /\ p >= 1
    /\ p + Len(w) - 1 <= Len(s)
    /\ \A k \in 1..Len(w) : s[p + k - 1] = w[k]

(***************************************************************************)
(* The labels and the cue words of the parser.                             *)
(***************************************************************************)
safe == <<"s", "a", "f", "e">>
vulnerable == <<"v", "u", "l", "n", "e", "r", "a", "b", "l", "e">>
unknown == <<"u", "n", "k", "n", "o", "w", "n">>

w_not == <<"n", "o", "t">>
w_unsafe == <<"u", "n", "s", "a", "f", "e">>
w_vulnerability == <<"v", "u", "l", "n", "e", "r", "a", "b", "i", "l", "i", "t", "y">>
w_vulnerabilities == <<"v", "u", "l", "n", "e", "r", "a", "b", "i", "l", "i", "t", "i", "e", "s">>
w_exploitable == <<"e", "x", "p", "l", "o", "i", "t", "a", "b", "l", "e">>
w_at == <<"a", "t">>
w_risk == <<"r", "i", "s", "k">>
w_secure == <<"s", "e", "c", "u", "r", "e">>
w_no == <<"n", "o">>
w_known == <<"k", "n", "o", "w", "n">>

\* the alternatives of the marker group of verdict_pattern
Markers == { <<"f", "i", "n", "a", "l", " ", "a", "n", "s", "w", "e", "r">>,
             <<"a", "n", "s", "w", "e", "r">>,
             <<"c", "l", "a", "s", "s", "i", "f", "i", "c", "a", "t", "i", "o", "n">>,
             <<"v", "e", "r", "d", "i", "c", "t">>,
             <<"l", "a", "b", "e", "l">> }

(***************************************************************************)
(* evaluation/label_parser.py: parse_verdict.                              *)
(***************************************************************************)
\* tier 1 reading the first word of the line whatever follows it
Tier1FirstWord(lines) ==
    LET parts == SplitWords(lines[1])
        token == IF Len(parts) > 0 THEN LowerStr(AlphaOnly(parts[1])) ELSE <<>>
    IN  IF token \in {safe, vulnerable} THEN token ELSE <<>>

\* tier 1 returning the letters of a one-word line whatever they spell
Tier1AnyWord(lines) ==
    LET parts == SplitWords(lines[1])
        token == IF Len(parts) > 0 THEN LowerStr(AlphaOnly(parts[1])) ELSE <<>>
    IN  IF Len(parts) = 1 THEN token ELSE <<>>

\* tier 1: the first non-empty line is one word whose letters spell a label
Tier1(lines) ==
    LET parts == SplitWords(lines[1])
        token == IF Len(parts) > 0 THEN LowerStr(AlphaOnly(parts[1])) ELSE <<>>
    IN  IF Len(parts) = 1 /\ token \in {safe, vulnerable} THEN token ELSE <<>>

\* verdict_pattern without its end anchor: anything may follow the label
MarkerLinePrefix(ln, lb) ==
    LET L == LowerStr(ln)
    IN  \E mk \in Markers :
          /\ StartsAt(L, 1, mk)
          /\ LET p2 == SkipSpaces(L, 1 + Len(mk))
             IN  /\ p2 <= Len(L)
                 /\ L[p2] = ":"
                 /\ StartsAt(L, SkipSpaces(L, p2 + 1), lb)

\* verdict_pattern matched against one line, case-insensitively, for label lb:
\* ^(marker)\s*:\s*(lb)\s*[.!]?\s*$
MarkerLineFor(ln, lb) ==
    LET L == LowerStr(ln)
    IN  \E mk \in Markers :
          /\ StartsAt(L, 1, mk)
          /\ LET p2 == SkipSpaces(L, 1 + Len(mk))
             IN  /\ p2 <= Len(L)
                 /\ L[p2] = ":"
                 /\ LET p3 == SkipSpaces(L, p2 + 1)
                    IN  /\ StartsAt(L, p3, lb)
                        /\ LET p5 == SkipSpaces(L, p3 + Len(lb))
                               p6 == IF p5 <= Len(L) /\ L[p5] \in {".", "!"}
                                     THEN p5 + 1 ELSE p5
                           IN  SkipSpaces(L, p6) = Len(L) + 1

\* group 2 of verdict_pattern on a line, lowercased; <<>> when the line does not match
MarkerLabel(ln) ==
    IF MarkerLineFor(ln, safe) THEN safe
    ELSE IF MarkerLineFor(ln, vulnerable) THEN vulnerable
    ELSE <<>>

\* tier 2: for ln in reversed(lines), the first line that matches
RECURSIVE Tier2From(_, _)
Tier2From(lines, k) ==
    IF k < 1 THEN <<>>
    ELSE IF MarkerLabel(lines[k]) # <<>> THEN MarkerLabel(lines[k])
    ELSE Tier2From(lines, k - 1)

\* the scan from the first line to the last
RECURSIVE Tier2FromTop(_, _)
Tier2FromTop(lines, k) ==
    IF k > Len(lines) THEN <<>>
    ELSE IF MarkerLabel(lines[k]) # <<>> THEN MarkerLabel(lines[k])
    ELSE Tier2FromTop(lines, k + 1)

\* tier 2 returning the first marker line of the text
Tier2Forward(lines) == Tier2FromTop(lines, 1)

Tier2(lines) == Tier2From(lines, Len(lines))

\* the regex \b between positions p-1 and p of s
Boundary(s, p) ==
    LET before == p - 1 >= 1 /\ p - 1 <= Len(s) /\ IsWordChar(s[p - 1])
        after == p >= 1 /\ p <= Len(s) /\ IsWordChar(s[p])
    IN  before # after

\* ws[k], then \s+ and the next word ..., then \b, matched from position p of s
RECURSIVE MatchWords(_, _, _, _)
MatchWords(s, p, ws, k) ==
    /\ StartsAt(s, p, ws[k])
    /\ LET q == p + Len(ws[k])
       IN  IF k = Len(ws) THEN Boundary(s, q)
           ELSE /\ SkipSpaces(s, q) > q
                /\ MatchWords(s, SkipSpaces(s, q), ws, k + 1)

\* re.search(r"\bw1\s+w2...\b", s)
HasPhrase(s, ws) ==
    \E p \in 1..Len(s) : Boundary(s, p) /\ MatchWords(s, p, ws, 1)

\* tier 3 without the cues that negate a vulnerability
Tier3NoNegation(text) ==
    LET lowered == LowerStr(text)
        vulnerable_signal == \/ HasPhrase(lowered, <<w_not, safe>>)
                             \/ HasPhrase(lowered, <<w_unsafe>>)
                             \/ HasPhrase(lowered, <<vulnerable>>)
                             \/ HasPhrase(lowered, <<w_vulnerability>>)
                             \/ HasPhrase(lowered, <<w_vulnerabilities>>)
                             \/ HasPhrase(lowered, <<w_exploitable>>)
                             \/ HasPhrase(lowered, <<w_at, w_risk>>)
        positive_safe == /\ (HasPhrase(lowered, <<safe>>) \/ HasPhrase(lowered, <<w_secure>>))
                         /\ ~HasPhrase(lowered, <<w_not, safe>>)
                         /\ ~HasPhrase(lowered, <<w_unsafe>>)
    IN  IF vulnerable_signal /\ ~positive_safe THEN vulnerable
        ELSE IF positive_safe /\ ~vulnerable_signal THEN safe
        ELSE unknown

\* tier 3: the negation-aware lexical scan of the lowercased text
Tier3(text) ==
    LET lowered == LowerStr(text)
        has_not_safe == HasPhrase(lowered, <<w_not, safe>>)
        has_unsafe == HasPhrase(lowered, <<w_unsafe>>)
        has_vulnerable == HasPhrase(lowered, <<vulnerable>>)
        has_vulnerability == \/ HasPhrase(lowered, <<w_vulnerability>>)
                             \/ HasPhrase(lowered, <<w_vulnerabilities>>)
        has_exploitable == HasPhrase(lowered, <<w_exploitable>>)
        has_at_risk == HasPhrase(lowered, <<w_at, w_risk>>)
        has_safe_word == HasPhrase(lowered, <<safe>>)
        has_secure_word == HasPhrase(lowered, <<w_secure>>)
        has_not_vulnerable == HasPhrase(lowered, <<w_not, vulnerable>>)
        has_no_vuln == \/ HasPhrase(lowered, <<w_no, w_vulnerability>>)
                       \/ HasPhrase(lowered, <<w_no, w_vulnerabilities>>)
                       \/ HasPhrase(lowered, <<w_no, w_known, w_vulnerability>>)
                       \/ HasPhrase(lowered, <<w_no, w_known, w_vulnerabilities>>)
        vulnerable_signal_raw == \/ has_not_safe \/ has_unsafe \/ has_vulnerable
                                 \/ has_vulnerability \/ has_exploitable \/ has_at_risk
        safe_negating_vuln == has_not_vulnerable \/ has_no_vuln
        vulnerable_signal == vulnerable_signal_raw /\ ~safe_negating_vuln
        positive_safe == /\ (has_safe_word \/ has_secure_word \/ safe_negating_vuln)
                         /\ ~has_not_safe
                         /\ ~has_unsafe
    IN  IF vulnerable_signal /\ ~positive_safe THEN vulnerable
        ELSE IF positive_safe /\ ~vulnerable_signal THEN safe
        ELSE unknown

\* the marker scan tried before the first-line rule
MarkersFirst(x) ==
    LET text == Strip(Str(x))
        lines == StrippedLines(text)
    IN  IF Len(lines) = 0 THEN unknown
        ELSE IF Tier2(lines) # <<>> THEN Tier2(lines)
        ELSE IF Tier1(lines) # <<>> THEN Tier1(lines)
        ELSE Tier3(text)

\* parse_verdict(text): the three tiers in order
parse_verdict(x) ==
    LET text == Strip(Str(x))
        lines == StrippedLines(text)
    IN  IF Len(lines) = 0 THEN unknown
        ELSE IF Tier1(lines) # <<>> THEN Tier1(lines)
        ELSE IF Tier2(lines) # <<>> THEN Tier2(lines)
        ELSE Tier3(text)

(***************************************************************************)
(* evaluation/metrics.py: the Metrics accumulator.                         *)
(***************************************************************************)
\* the literal of the third branch of Metrics.add
Unknwon == <<"U", "n", "k", "n", "w", "o", "n">>

\* a derived metric is the quotient of two integers: it is kept as the
\* fraction in lowest terms with a positive denominator, the value a float
\* stands for before rounding
RECURSIVE GCD(_, _)
GCD(a, b) == IF b = 0 THEN a ELSE GCD(b, a % b)

Abs(n) == IF n < 0 THEN 0 - n ELSE n

\* n / d for d > 0
Ratio(n, d) ==
    LET g == GCD(Abs(n), d)
    IN  [num |-> n \div g, den |-> d \div g]

\* 0.0 and 1
Zero == Ratio(0, 1)
One == Ratio(1, 1)

RAdd(a, b) == Ratio(a.num * b.den + b.num * a.den, a.den * b.den)
RSub(a, b) == Ratio(a.num * b.den - b.num * a.den, a.den * b.den)
RMul(a, b) == Ratio(a.num * b.num, a.den * b.den)
\* a / b for b > 0
RDiv(a, b) == Ratio(a.num * b.den, a.den * b.num)

\* Metrics(): every counter starts at 0 and every derived metric at 0.0
NewMetrics ==
    [TP |-> 0, TN |-> 0, FP |-> 0, FN |-> 0, Incorrect |-> 0, UNFN |-> 0, Unknown |-> 0,
     Accuracy |-> Zero, Precision |-> Zero, Recall |-> Zero, F1 |-> Zero,
     Effective_F1 |-> Zero, Abstention |-> Zero, Coverage |-> Zero]

\* add counting a prediction only against a gold label of the other class
MetricsAddTwoClasses(m, gold, pred) ==
    IF pred = vulnerable
    THEN IF gold = vulnerable THEN [m EXCEPT !.TP = @ + 1]
         ELSE IF gold = safe THEN [m EXCEPT !.FP = @ + 1] ELSE m
    ELSE IF pred = safe
    THEN IF gold = safe THEN [m EXCEPT !.TN = @ + 1]
         ELSE IF gold = vulnerable THEN [m EXCEPT !.FN = @ + 1] ELSE m
    ELSE IF pred = Unknwon
    THEN IF gold = safe THEN [m EXCEPT !.Incorrect = @ + 1] ELSE [m EXCEPT !.UNFN = @ + 1]
    ELSE m

\* Metrics.add(gold, pred)
MetricsAdd(m, gold, pred) ==
    IF pred = vulnerable
    THEN IF gold = vulnerable THEN [m EXCEPT !.TP = @ + 1] ELSE [m EXCEPT !.FP = @ + 1]
    ELSE IF pred = safe
    THEN IF gold = safe THEN [m EXCEPT !.TN = @ + 1] ELSE [m EXCEPT !.FN = @ + 1]
    ELSE IF pred = Unknwon
    THEN IF gold = safe THEN [m EXCEPT !.Incorrect = @ + 1] ELSE [m EXCEPT !.UNFN = @ + 1]
    ELSE m

\* the six counters exported by Metrics.to_dict
CounterSum(m) == m.TP + m.TN + m.FP + m.FN + m.Incorrect + m.UNFN

\* n / d if d else 0.0
Guarded(n, d) == IF d # 0 THEN Ratio(n, d) ELSE Zero

\* lines 133-137: 2 * P * R / (P + R) if (P + R) else 0.0
HarmonicMean(p, r) ==
    IF RAdd(p, r).num # 0
    THEN RDiv(RMul(RMul(Ratio(2, 1), p), r), RAdd(p, r))
    ELSE Zero

\* the seven assignments of compute
StoreDerived(m, acc, prec, rec, f1, abst, cov, eff) ==
    [m EXCEPT !.Accuracy = acc, !.Precision = prec, !.Recall = rec, !.F1 = f1,
              !.Abstention = abst, !.Coverage = cov, !.Effective_F1 = eff]

\* compute with the denominators of its docstring (lines 106 and 108): UNFN
\* counts against Accuracy and Recall
ComputeOverUNFN(m) ==
    LET acc == Guarded(m.TP + m.TN, m.TP + m.TN + m.FP + m.FN + m.UNFN)
        prec == Guarded(m.TP, m.TP + m.FP)
        rec == Guarded(m.TP, m.TP + m.FN + m.UNFN)
        f1 == HarmonicMean(prec, rec)
        abst == Guarded(m.Incorrect + m.Unknown, CounterSum(m))
        cov == RSub(One, abst)
    IN  StoreDerived(m, acc, prec, rec, f1, abst, cov, RMul(f1, abst))

\* compute with the Effective_F1 of its docstring (line 112): F1 * Coverage
ComputeCoverageWeighted(m) ==
    LET acc == Guarded(m.TP + m.TN, m.TP + m.TN + m.FP + m.FN)
        prec == Guarded(m.TP, m.TP + m.FP)
        rec == Guarded(m.TP, m.TP + m.FN)
        f1 == HarmonicMean(prec, rec)
        abst == Guarded(m.Incorrect + m.Unknown, CounterSum(m))
        cov == RSub(One, abst)
    IN  StoreDerived(m, acc, prec, rec, f1, abst, cov, RMul(f1, cov))

\* compute that folds the two abstention counters into one while deriving
ComputeFoldsCounters(m) ==
    LET folded == [m EXCEPT !.Incorrect = m.Incorrect + m.UNFN, !.UNFN = 0]
        acc == Guarded(m.TP + m.TN, m.TP + m.TN + m.FP + m.FN)
        prec == Guarded(m.TP, m.TP + m.FP)
        rec == Guarded(m.TP, m.TP + m.FN)
        f1 == HarmonicMean(prec, rec)
        abst == Guarded(m.Incorrect + m.Unknown, CounterSum(m))
        cov == RSub(One, abst)
    IN  StoreDerived(folded, acc, prec, rec, f1, abst, cov, RMul(f1, abst))

\* Metrics.compute(), lines 121-154
MetricsCompute(m) ==
    LET total == m.TP + m.TN + m.FP + m.FN
        acc == Guarded(m.TP + m.TN, total)
        prec == Guarded(m.TP, m.TP + m.FP)
        rec == Guarded(m.TP, m.TP + m.FN)
        f1 == HarmonicMean(prec, rec)
        abst == Guarded(m.Incorrect + m.Unknown,
                        m.TP + m.TN + m.FP + m.FN + m.Incorrect + m.UNFN)
        cov == RSub(One, abst)
        eff == RMul(f1, abst)
    IN  StoreDerived(m, acc, prec, rec, f1, abst, cov, eff)

\* Metrics.to_dict(), lines 168-182: the six counters and the seven derived
\* metrics; Abstention_Rate is the key "Abstention Rate", Effective_F1 the
\* key "Effective F1"
MetricsToDict(m) ==
    [TP |-> m.TP, TN |-> m.TN, FP |-> m.FP, FN |-> m.FN,
     Incorrect |-> m.Incorrect, UNFN |-> m.UNFN,
     Accuracy |-> m.Accuracy, Precision |-> m.Precision, Recall |-> m.Recall,
     F1 |-> m.F1, Abstention_Rate |-> m.Abstention, Coverage |-> m.Coverage,
     Effective_F1 |-> m.Effective_F1]

(***************************************************************************)
(* The collaborators of the runner: what they may hand back.               *)
(***************************************************************************)
\* a dataset sample: a dict with a "label" key, a sequence of at least two
\* items, or any other object
DictSample(lab) == [kind |-> "dict", has_label |-> TRUE, label |-> lab]
SeqSample(lab) == [kind |-> "seq", has_label |-> TRUE, label |-> lab]
OtherSample == [kind |-> "other", has_label |-> FALSE, label |-> PyNone]

\* the datasets load_dataset may return (besides [] and raising)
DatasetPool ==
    { << DictSample(PyStr(<<"S", "a", "f", "e", " ">>)),
         SeqSample(PyStr(<<"V", "U", "L", "N", "E", "R", "A", "B", "L", "E">>)) >>,
      << OtherSample >>,
      << DictSample(PyNone) >> }

\* what model.generate may return to the runner (besides raising)
Responses ==
    { PyStr(<<>>),
      PyNone,
      PyStr(<<"S", "A", "F", "E">>),
      PyStr(<<"V", "U", "L", "N", "E", "R", "A", "B", "L", "E", ".", "\n",
              "n", "o", "t", " ", "s", "a", "f", "e">>),
      PyStr(<<"m", "a", "y", "b", "e">>) }

\* what a prompt strategy's apply returns (besides raising): every strategy
\* ends with return "SAFE" / "VULNERABLE" / "UNKNOWN"
StrategyResults ==
    { PyStr(<<"S", "A", "F", "E">>),
      PyStr(<<"V", "U", "L", "N", "E", "R", "A", "B", "L", "E">>),
      PyStr(<<"U", "N", "K", "N", "O", "W", "N">>) }

\* the keys of _PROMPT_REGISTRY
PromptRegistry == {"zero_shot", "few_shot", "cot", "adaptive_cot", "self_consistency"}

\* load_prompt_strategy(name) raises ValueError for a name outside the registry
LoadPromptRaises(name) == name \notin PromptRegistry

\* getattr(prompt_obj, "returns_label", False): no strategy class defines the
\* attribute, so the default is what the runner reads
returns_label(name) == FALSE

\* force_label_stop = True
force_label_stop == TRUE

\* int(gen_cfg.get("sc_samples", 5)): the votes self-consistency collects
sc_samples == 5

\* len(direct_templates), len(reasoning_templates) of SelfConsistency
direct_templates == 2
reasoning_templates == 2

\* the calls of model.generate one apply makes before it returns: one for
\* ZeroShot; for SelfConsistency each of the sc_samples votes tries from one
\* template up to all of them (the fewest and the most are kept)
ApplyCalls(name) ==
    IF name = "self_consistency"
    THEN {sc_samples, sc_samples * (direct_templates + reasoning_templates)}
    ELSE {1}

\* the calls of model.generate one apply has made when one of them raises
ApplyCallsRaised(name) ==
    IF name = "self_consistency"
    THEN {1, sc_samples * (direct_templates + reasoning_templates)}
    ELSE {1}

\* the prompt strategies offered for selection
PromptOptions == <<"zero_shot", "self_consistency", "no_such_strategy">>

(***************************************************************************)
(* core/runner.py: sample extraction and the run record.                   *)
(***************************************************************************)
\* lines 220-229: (raised, gold) of one sample
ExtractGold(sample) ==
    IF sample.kind = "dict"
    THEN LET lab == IF sample.has_label THEN sample.label ELSE PyStr(<<>>)
         IN  IF lab.t = "str"
             THEN [raised |-> FALSE, gold |-> LowerStr(Strip(lab.v))]
             ELSE [raised |-> TRUE, gold |-> <<>>]
    ELSE IF sample.kind = "seq"
    THEN [raised |-> FALSE, gold |-> LowerStr(Strip(Str(sample.label)))]
    ELSE [raised |-> FALSE, gold |-> unknown]

\* the rank of a label in Python's string order, for sorted()
LabelRank(l) == IF l = safe THEN 1 ELSE IF l = unknown THEN 2 ELSE 3

\* a reference to a dict object: to a dict nothing else refers to, which is
\* as good as its contents, or to the dict the runner keeps as self.gen_cfg
OwnDict(cfg) == [shared |-> FALSE, value |-> cfg]
SharedDict == [shared |-> TRUE, value |-> <<>>]

\* the contents of the dict a reference leads to, self.gen_cfg being g
Deref(ref, g) == IF ref.shared THEN g ELSE ref.value

\* the generation settings the dashboard writes into runner.gen_cfg, and
\* settings that differ from them in one key
UiCfg == [temperature |-> "0.2", sc_samples |-> sc_samples]
OtherCfg == [temperature |-> "0.7", sc_samples |-> sc_samples]
GenCfgs == {UiCfg, OtherCfg}
NoCfg == <<>>

\* sorted({p["pred"] for p in preds}) if preds else []
RECURSIVE SortedLabels(_)
SortedLabels(S) ==
    IF S = {} THEN <<>>
    ELSE LET lo == CHOOSE x \in S : \A y \in S : LabelRank(x) <= LabelRank(y)
         IN  <<lo>> \o SortedLabels(S \ {lo})

\* a count of every prediction, whatever its verdict
ValidSamplesCountsAll(preds) == Len(preds)

\* sum(1 for p in preds if p["pred"] in ("safe", "vulnerable"))
ValidSamples(preds) ==
    Cardinality({k \in 1..Len(preds) : preds[k].pred \in {safe, vulnerable}})

\* total = len(dataset)
TotalSamples(ds) == Len(ds)

\* a record that lists the predicted labels as the log has them, one per
\* prediction
MakeRecordLabelsAsLogged(d, mo, p, m, preds, ds, cfg) ==
    LET metrics == MetricsToDict(MetricsCompute(m))
    IN  [dataset |-> d, model |-> mo, prompt |-> p,
         TP |-> metrics.TP, TN |-> metrics.TN, FP |-> metrics.FP, FN |-> metrics.FN,
         Incorrect |-> metrics.Incorrect, UNFN |-> metrics.UNFN,
         Accuracy |-> metrics.Accuracy, Precision |-> metrics.Precision,
         Recall |-> metrics.Recall, F1 |-> metrics.F1,
         Abstention_Rate |-> metrics.Abstention_Rate, Coverage |-> metrics.Coverage,
         Effective_F1 |-> metrics.Effective_F1,
         predictions |-> preds,
         valid_samples |-> ValidSamples(preds),
         total_samples |-> TotalSamples(ds),
         unique_pred_labels |-> [k \in 1..Len(preds) |-> preds[k].pred],
         params |-> OwnDict(cfg)]

\* lines 344-361: the record of one finished _run_single
\* a record whose params is the runner's own gen_cfg dict, not the copy
MakeRecordSharedParams(d, mo, p, m, preds, ds, cfg) ==
    LET metrics == MetricsToDict(MetricsCompute(m))
    IN  [dataset |-> d, model |-> mo, prompt |-> p,
         TP |-> metrics.TP, TN |-> metrics.TN, FP |-> metrics.FP, FN |-> metrics.FN,
         Incorrect |-> metrics.Incorrect, UNFN |-> metrics.UNFN,
         Accuracy |-> metrics.Accuracy, Precision |-> metrics.Precision,
         Recall |-> metrics.Recall, F1 |-> metrics.F1,
         Abstention_Rate |-> metrics.Abstention_Rate, Coverage |-> metrics.Coverage,
         Effective_F1 |-> metrics.Effective_F1,
         predictions |-> preds,
         valid_samples |-> ValidSamples(preds),
         total_samples |-> TotalSamples(ds),
         unique_pred_labels |-> SortedLabels({preds[k].pred : k \in 1..Len(preds)}),
         params |-> SharedDict]

MakeRecord(d, mo, p, m, preds, ds, cfg) ==
    LET Row(metrics) ==
          [dataset |-> d, model |-> mo, prompt |-> p,
           TP |-> metrics.TP, TN |-> metrics.TN, FP |-> metrics.FP, FN |-> metrics.FN,
           Incorrect |-> metrics.Incorrect, UNFN |-> metrics.UNFN,
           Accuracy |-> metrics.Accuracy, Precision |-> metrics.Precision,
           Recall |-> metrics.Recall, F1 |-> metrics.F1,
           Abstention_Rate |-> metrics.Abstention_Rate, Coverage |-> metrics.Coverage,
           Effective_F1 |-> metrics.Effective_F1,
           predictions |-> preds,
           valid_samples |-> ValidSamples(preds),
           total_samples |-> TotalSamples(ds),
           unique_pred_labels |-> SortedLabels({preds[k].pred : k \in 1..Len(preds)}),
           params |-> OwnDict(cfg)]
    \* m.compute() runs once and to_dict() reads what it stored
    IN  CHOOSE row \in {Row(MetricsToDict(computed)) : computed \in {MetricsCompute(m)}} :
          TRUE

(***************************************************************************)
(* The state.                                                              *)
(*   dashboard:  run_btn, stop_btn (is the button enabled), dash_runner    *)
(*               (self.runner: 0 is None, else the runner object's id),    *)
(*               msg_queue (the completion messages of the worker)         *)
(*   runners:    the two flags of each runner object. An object nothing    *)
(*               refers to any more is freed and its id names the next     *)
(*               object made, so two ids serve any number of runs          *)
(*   the batch in progress (the worker thread in run_all / _run_single):   *)
(*               pc, sel (the three selections), di, mi, pi (the three     *)
(*               loop positions), dataset, i, m, preds (the locals of      *)
(*               _run_single), records (self.records), log (the calls of   *)
(*               self.progress), artifacts (the files written), run_result  *)
(*               (what run_all returned to the worker)                     *)
(*   history:    stop_clicked (was _on_stop called since the last          *)
(*               _on_run), attempts (the                                   *)
(*               sample positions the current _run_single has taken up),   *)
(*               last (what the latest pass of the sample loop did, calls  *)
(*               being the calls of model.generate it made), work          *)
(*               (the samples load_dataset has handed out in this batch,   *)
(*               times the (model, prompt) pairs selected)                 *)
(*   one call of parse_verdict or Metrics.add on its own: call (the        *)
(*               function and its arguments), returned (its return value)  *)
(*   one Metrics object on its own: m is the object, call the latest call  *)
(*               on it, adds how often add was called on it with each      *)
(*               pair of arguments                                         *)
(***************************************************************************)
VARIABLES run_btn, stop_btn, dash_runner, msg_queue,
          stop_flag, stop_requested, self_gen_cfg,
          pc, sel, di, mi, pi, dataset, i, m, preds, gen_cfg, records, log, artifacts,
          run_result, stop_clicked, attempts, last, work,
          call, returned, adds

vars == <<run_btn, stop_btn, dash_runner, msg_queue,
          stop_flag, stop_requested, self_gen_cfg,
          pc, sel, di, mi, pi, dataset, i, m, preds, gen_cfg, records, log, artifacts,
          run_result, stop_clicked, attempts, last, work,
          call, returned, adds>>

dashVars == <<run_btn, stop_btn, dash_runner, msg_queue>>
flagVars == <<stop_flag, stop_requested, self_gen_cfg>>
loopVars == <<sel, di, mi, pi>>
runVars == <<dataset, i, m, preds, gen_cfg, attempts, last, work>>
unitVars == <<call, returned, adds>>

\* no function is being called on its own
NoCall == [fn |-> "none"]
NoResult == <<>>

\* the arguments add is called with on a Metrics object followed on its own:
\* the two gold classes, and as prediction the three verdicts and the
\* literal of the third branch
AddGolds == {safe, vulnerable}
AddPreds == {safe, vulnerable, unknown, Unknwon}
AddPairs == AddGolds \X AddPreds

\* add has not been called
NoAdds == [pr \in AddPairs |-> 0]

RunnerIds == {1, 2}

NoLast == [outcome |-> "none", idx |-> 0, prompt |-> "", suffixed |-> FALSE,
           sent |-> FALSE, calls |-> 0, pred |-> PyNone, verdict |-> <<>>]

\* the selections _on_run can hand to the worker: at least one of each
Selections ==
    { [datasets |-> [k \in 1..nd |-> k],
       models |-> [k \in 1..nm |-> k],
       prompts |-> ps] :
         nd \in 1..MaxDatasets, nm \in 1..MaxModels,
         ps \in UNION { [1..n -> {PromptOptions[k] : k \in 1..Len(PromptOptions)}] :
                         n \in 1..MaxPrompts } }

\* the order of the checkboxes: a selection lists options in option order
InOptionOrder(ps) ==
    \A a, b \in 1..Len(ps) :
        a < b => \E x, y \in 1..Len(PromptOptions) :
                    x < y /\ PromptOptions[x] = ps[a] /\ PromptOptions[y] = ps[b]

RunnerInit ==
    /\ run_btn = TRUE
    /\ stop_btn = FALSE
    /\ dash_runner = 0
    /\ msg_queue = <<>>
    /\ stop_flag = [r \in RunnerIds |-> FALSE]
    /\ stop_requested = [r \in RunnerIds |-> FALSE]
    /\ self_gen_cfg = UiCfg
    /\ pc = "idle"
    /\ sel = [datasets |-> <<>>, models |-> <<>>, prompts |-> <<>>]
    /\ di = 0 /\ mi = 0 /\ pi = 0
    /\ dataset = <<>>
    /\ i = 0
    /\ m = NewMetrics
    /\ preds = <<>>
    /\ gen_cfg = NoCfg
    /\ records = <<>>
    /\ log = {}
    /\ artifacts = {}
    /\ run_result = NoResult
    /\ stop_clicked = FALSE
    /\ attempts = <<>>
    /\ last = NoLast
    /\ work = 0

Init ==
    /\ RunnerInit
    /\ call = NoCall
    /\ returned = NoResult
    /\ adds = NoAdds

(***************************************************************************)
(* ui/dashboard.py: the GUI thread.                                        *)
(***************************************************************************)
\* _on_run: needs one model, prompt and dataset at least; disables Run,
\* enables Stop and starts the worker thread
OnRun ==
    /\ run_btn
    /\ \E s \in Selections :
         /\ InOptionOrder(s.prompts)
         /\ sel' = s
    /\ run_btn' = FALSE
    /\ stop_btn' = TRUE
    /\ pc' = "spawned"
    /\ UNCHANGED <<di, mi, pi, runVars, records, log, artifacts, run_result, stop_clicked>>
    /\ UNCHANGED <<dash_runner, msg_queue, flagVars>>
    /\ UNCHANGED unitVars

\* if self.runner: set both flags on it
StopTarget == IF dash_runner # 0 THEN {dash_runner} ELSE {}

\* _on_stop: disables Stop and flags the runner self.runner names, if any
OnStop ==
    /\ stop_btn
    /\ stop_btn' = FALSE
    /\ stop_flag' = [r \in RunnerIds |-> stop_flag[r] \/ r \in StopTarget]
    /\ stop_requested' = [r \in RunnerIds |-> stop_requested[r] \/ r \in StopTarget]
    /\ stop_clicked' = TRUE
    /\ UNCHANGED <<run_btn, dash_runner, msg_queue, self_gen_cfg, pc, loopVars,
                   runVars, records, log, artifacts, run_result>>
    /\ UNCHANGED unitVars

\* the batch the worker ran is over and nothing reads its state again
NoBatch ==
    /\ sel' = [datasets |-> <<>>, models |-> <<>>, prompts |-> <<>>]
    /\ di' = 0 /\ mi' = 0 /\ pi' = 0
    /\ dataset' = <<>> /\ i' = 0 /\ m' = NewMetrics /\ preds' = <<>> /\ gen_cfg' = NoCfg
    /\ records' = <<>> /\ log' = {} /\ artifacts' = {} /\ run_result' = NoResult
    /\ stop_clicked' = FALSE /\ attempts' = <<>> /\ last' = NoLast /\ work' = 0

\* _poll_msgs on a "done" message: Run is enabled again, Stop disabled
PollMsgs ==
    /\ Len(msg_queue) > 0
    /\ msg_queue' = Tail(msg_queue)
    /\ run_btn' = TRUE
    /\ stop_btn' = FALSE
    /\ NoBatch
    /\ UNCHANGED <<dash_runner, flagVars, pc>>
    /\ UNCHANGED unitVars

(***************************************************************************)
(* ui/dashboard.py: the worker thread, and core/runner.py: run_all.        *)
(***************************************************************************)
\* the runner object the worker made and runs: self.runner, which only the
\* worker assigns
Runner == dash_runner

\* the id of the runner object the worker makes next
NewRunner == IF dash_runner = 1 THEN 2 ELSE 1

\* self.stop_requested or self.stop_flag, read by the runner on itself
StopSeen == stop_requested[Runner] \/ stop_flag[Runner]

\* the four places run_all and _run_single read the flags. What the runner
\* does between two reads does not depend on the flags, so a flag set there
\* acts as one set just before the next read: each read is taken together
\* with the step it guards
StopBeforeDataset == StopSeen
StopBeforeModel == StopSeen

\* the prompt loop without its read of the flags
PromptCheckMissing == FALSE

StopBeforePrompt == StopSeen

\* the sample loop without its read of the flags
SampleCheckMissing == FALSE

StopBeforeSample == StopSeen

\* parse_verdict of everything the runner may hand it
ParsedVerdict == [x \in Responses \cup StrategyResults |-> parse_verdict(x)]

CurDataset == <<sel.datasets[di]>>
CurModel == sel.models[mi]
CurPrompt == sel.prompts[pi]

Msg(kind, what) == [kind |-> kind, what |-> what]

\* _worker_run up to the first pass of run_all's loop: a new ExperimentRunner
\* (both flags False, no records) is stored in self.runner, which frees the
\* runner of the run before, and run_all begins
WorkerStart ==
    /\ pc = "spawned"
    /\ dash_runner' = NewRunner
    /\ stop_flag' = [r \in RunnerIds |-> FALSE]
    /\ stop_requested' = [r \in RunnerIds |-> FALSE]
    /\ self_gen_cfg' = UiCfg
    /\ records' = <<>>
    /\ di' = 1
    /\ pc' = "datasets"
    /\ UNCHANGED <<run_btn, stop_btn, msg_queue, sel, mi, pi, runVars, log,
                   artifacts, run_result, stop_clicked>>
    /\ UNCHANGED unitVars

\* what load_dataset does for one name: raises, returns [], or returns samples
LoadOutcomes ==
    {[raised |-> TRUE, data |-> <<>>]}
        \cup {[raised |-> FALSE, data |-> d] : d \in DatasetPool \cup {<<>>}}

\* a failed load that ends the dataset loop (break) instead of going on
FailedLoadEndsBatch ==
    /\ log' = log \cup {Msg("loading", CurDataset), Msg("failed_load", CurDataset)}
    /\ pc' = "write"
    /\ UNCHANGED <<di, mi, dataset>>

\* lines 109-112: load_dataset raised; the failure is logged with the
\* dataset's name and the loop goes on with the next dataset
FailedLoad ==
    /\ log' = log \cup {Msg("loading", CurDataset), Msg("failed_load", CurDataset)}
    /\ di' = di + 1
    /\ UNCHANGED <<pc, mi, dataset>>

\* run_all, lines 91-117: one pass of the dataset loop
DatasetStep ==
    /\ pc = "datasets"
    /\ IF di > Len(sel.datasets)
       THEN /\ pc' = "write"
            /\ UNCHANGED <<di, mi, dataset, log, work>>
       ELSE IF StopBeforeDataset
       THEN /\ log' = log \cup {Msg("stopped_before_dataset", CurDataset)}
            /\ pc' = "write"
            /\ UNCHANGED <<di, mi, dataset, work>>
       ELSE \E out \in LoadOutcomes :
              /\ work + Len(out.data) * Len(sel.models) * Len(sel.prompts) <= MaxWork
              /\ work' = work + Len(out.data) * Len(sel.models) * Len(sel.prompts)
              /\ IF out.raised
                 THEN FailedLoad
                 ELSE IF out.data = <<>>
                 THEN /\ log' = log \cup {Msg("loading", CurDataset),
                                          Msg("loaded", CurDataset),
                                          Msg("no_samples", CurDataset)}
                      /\ di' = di + 1
                      /\ UNCHANGED <<pc, mi, dataset>>
                 ELSE /\ log' = log \cup {Msg("loading", CurDataset),
                                          Msg("loaded", CurDataset)}
                      /\ dataset' = out.data
                      /\ mi' = 1
                      /\ pc' = "models"
                      /\ UNCHANGED di
    /\ UNCHANGED <<dashVars, flagVars, sel, pi, i, m, preds, gen_cfg, attempts, last, records,
                   artifacts, run_result, stop_clicked>>
    /\ UNCHANGED unitVars

\* run_all, lines 119-121: one pass of the model loop. Leaving the loop, the
\* dataset is not read again before the next load_dataset replaces it
ModelStep ==
    /\ pc = "models"
    /\ IF mi > Len(sel.models) \/ StopBeforeModel
       THEN /\ di' = di + 1
            /\ pc' = "datasets"
            /\ dataset' = <<>>
            /\ UNCHANGED pi
       ELSE /\ pi' = 1
            /\ pc' = "prompts"
            /\ UNCHANGED <<di, dataset>>
    /\ UNCHANGED <<dashVars, flagVars, sel, mi, i, m, preds, gen_cfg, attempts, last, work,
                   records, log, artifacts, run_result, stop_clicked>>
    /\ UNCHANGED unitVars

\* the combination the loops stand at
Combo == <<sel.datasets[di], CurModel, CurPrompt>>

\* run_all, lines 123-139, and _run_single, lines 173-209: one pass of the
\* prompt loop up to the sample loop. load_prompt raising leaves _run_single
\* and is caught by run_all's except
PromptStep ==
    /\ pc = "prompts"
    /\ IF pi > Len(sel.prompts) \/ StopBeforePrompt
       THEN /\ mi' = mi + 1
            /\ pc' = "models"
            /\ UNCHANGED <<pi, i, m, preds, gen_cfg, attempts, log>>
       ELSE IF LoadPromptRaises(CurPrompt)
       THEN /\ log' = log \cup {Msg("running", Combo), Msg("error_run", Combo)}
            /\ pi' = pi + 1
            /\ UNCHANGED <<pc, mi, i, m, preds, gen_cfg, attempts>>
       ELSE /\ log' = log \cup {Msg("running", Combo)}
            /\ m' = NewMetrics
            /\ preds' = <<>>
            /\ gen_cfg' = self_gen_cfg
            /\ attempts' = <<>>
            /\ i' = 1
            /\ pc' = "samples"
            /\ UNCHANGED <<mi, pi>>
    /\ UNCHANGED <<dashVars, flagVars, sel, di, dataset, last, work, records, artifacts, run_result,
                   stop_clicked>>
    /\ UNCHANGED unitVars

\* _run_single is left (by return or by an exception): its locals are gone
EndOfRunSingle ==
    /\ i' = 0
    /\ m' = NewMetrics
    /\ preds' = <<>>
    /\ gen_cfg' = NoCfg
    /\ attempts' = <<>>
    /\ last' = NoLast

\* a run the flag cut short that is dropped: only a sample loop that reached
\* the end of the dataset gives a record
FinishRunCompletedOnly ==
    /\ records' = IF i <= Len(dataset)
                  THEN records
                  ELSE Append(records,
                              MakeRecord(sel.datasets[di], CurModel, CurPrompt, m, preds,
                                         dataset, gen_cfg))
    /\ log' = IF i <= Len(dataset)
              THEN log \cup {Msg("stopped_at_sample", <<i, TotalSamples(dataset)>>)}
              ELSE log
    /\ EndOfRunSingle
    /\ pi' = pi + 1
    /\ pc' = "prompts"

\* _run_single, lines 212-214 and 334-362, and run_all, lines 131-134: the
\* sample loop has ended, or the flag stopped it at sample i, which is logged;
\* the record is built and appended
FinishRun ==
    /\ records' = Append(records,
                         MakeRecord(sel.datasets[di], CurModel, CurPrompt, m, preds, dataset,
                                    gen_cfg))
    /\ log' = IF i <= Len(dataset)
              THEN log \cup {Msg("stopped_at_sample", <<i, TotalSamples(dataset)>>)}
              ELSE log
    /\ EndOfRunSingle
    /\ pi' = pi + 1
    /\ pc' = "prompts"

\* an exception of _run_single that ends run_all's loops instead of being
\* caught per combination
AbortEndsBatch ==
    /\ log' = log \cup {Msg("error_run", Combo)}
    /\ EndOfRunSingle
    /\ pc' = "write"
    /\ UNCHANGED <<pi, records>>

\* lines 220-229 raised: the exception leaves _run_single and run_all's
\* except (lines 135-139) logs it and goes on with the next prompt
AbortRun ==
    /\ log' = log \cup {Msg("error_run", Combo)}
    /\ EndOfRunSingle
    /\ pi' = pi + 1
    /\ pc' = "prompts"
    /\ UNCHANGED records

\* a failed sample that is scored as an unknown verdict instead of left out
SkipScoredAsUnknown(suffixed, sent, calls) ==
    /\ m' = MetricsAdd(m, unknown, unknown)
    /\ preds' = Append(preds, [id |-> i, gold |-> unknown, pred |-> unknown])
    /\ attempts' = Append(attempts, i)
    /\ last' = [NoLast EXCEPT !.outcome = "skipped", !.idx = i, !.prompt = CurPrompt,
                              !.suffixed = suffixed, !.sent = sent, !.calls = calls]
    /\ i' = i + 1
    /\ UNCHANGED <<pc, pi, gen_cfg, records, log>>

\* a failed sample that is tried again instead of left behind
SkipSampleRetries(suffixed, sent, calls) ==
    /\ attempts' = Append(attempts, i)
    /\ last' = [NoLast EXCEPT !.outcome = "skipped", !.idx = i, !.prompt = CurPrompt,
                              !.suffixed = suffixed, !.sent = sent, !.calls = calls]
    /\ i' = i
    /\ UNCHANGED <<pc, pi, m, preds, gen_cfg, records, log>>

\* lines 295-298: apply or generate raised; the sample is left out
SkipSample(suffixed, sent, calls) ==
    /\ attempts' = Append(attempts, i)
    /\ last' = [NoLast EXCEPT !.outcome = "skipped", !.idx = i, !.prompt = CurPrompt,
                              !.suffixed = suffixed, !.sent = sent, !.calls = calls]
    /\ i' = i + 1
    /\ UNCHANGED <<pc, pi, m, preds, gen_cfg, records, log>>

\* a sample that is logged as a prediction without being counted
ScoreSampleUncounted(gold, pred, suffixed, sent, calls) ==
    LET pred_label == ParsedVerdict[pred]
    IN  /\ preds' = Append(preds, [id |-> i, gold |-> gold, pred |-> pred_label])
        /\ attempts' = Append(attempts, i)
        /\ last' = [outcome |-> "scored", idx |-> i, prompt |-> CurPrompt,
                    suffixed |-> suffixed, sent |-> sent, calls |-> calls, pred |-> pred,
                    verdict |-> pred_label]
        /\ i' = i + 1
        /\ UNCHANGED <<pc, pi, m, gen_cfg, records, log>>

\* a prediction logged under its position in the log, not in the dataset
ScoreSampleIdByLogPosition(gold, pred, suffixed, sent, calls) ==
    LET pred_label == ParsedVerdict[pred]
    IN  /\ m' = MetricsAdd(m, gold, pred_label)
        /\ preds' = Append(preds, [id |-> Len(preds) + 1, gold |-> gold,
                                   pred |-> pred_label])
        /\ attempts' = Append(attempts, i)
        /\ last' = [outcome |-> "scored", idx |-> i, prompt |-> CurPrompt,
                    suffixed |-> suffixed, sent |-> sent, calls |-> calls, pred |-> pred,
                    verdict |-> pred_label]
        /\ i' = i + 1
        /\ UNCHANGED <<pc, pi, gen_cfg, records, log>>

\* lines 300-322: pred is parsed, counted and logged as a prediction
ScoreSample(gold, pred, suffixed, sent, calls) ==
    LET pred_label == ParsedVerdict[pred]
    IN  /\ m' = MetricsAdd(m, gold, pred_label)
        /\ preds' = Append(preds, [id |-> i, gold |-> gold, pred |-> pred_label])
        /\ attempts' = Append(attempts, i)
        /\ last' = [outcome |-> "scored", idx |-> i, prompt |-> CurPrompt,
                    suffixed |-> suffixed, sent |-> sent, calls |-> calls, pred |-> pred,
                    verdict |-> pred_label]
        /\ i' = i + 1
        /\ UNCHANGED <<pc, pi, gen_cfg, records, log>>

\* line 247: is the strategy's result wrapped in the instruction and sent
RunnerSends(result, prompt) ==
    result.t = "str" /\ force_label_stop /\ ~returns_label(prompt)

\* _run_single, lines 210-328: one pass of the sample loop
SampleStep ==
    /\ pc = "samples"
    /\ IF i > Len(dataset) \/ StopBeforeSample
       THEN FinishRun
       ELSE LET ex == ExtractGold(dataset[i])
            IN  IF ex.raised
                THEN AbortRun
                ELSE \E applied \in {"raise", "return"} :
                       IF applied = "raise"
                       THEN \E n \in ApplyCallsRaised(CurPrompt) :
                              SkipSample(FALSE, FALSE, n)
                       ELSE \E result \in StrategyResults, n \in ApplyCalls(CurPrompt) :
                              IF RunnerSends(result, CurPrompt)
                              THEN \E generated \in {"raise", "return"} :
                                     IF generated = "raise"
                                     THEN SkipSample(TRUE, TRUE, n + 1)
                                     ELSE \E pred \in Responses :
                                            ScoreSample(ex.gold, pred, TRUE, TRUE, n + 1)
                              ELSE ScoreSample(ex.gold, result, FALSE, FALSE, n)
    /\ UNCHANGED <<dashVars, flagVars, sel, di, mi, dataset, work, artifacts, run_result,
                   stop_clicked>>
    /\ UNCHANGED unitVars

\* _write_csv, lines 376-401: the files are written from the records, which
\* are only read, or something in it raises
WriteCsv(recs) == {[raised |-> b, records |-> recs] : b \in BOOLEAN}

\* evaluation/report.py is not among the sources. HtmlReport(records).write
\* writes the report or raises; it is an emitter that takes the finished
\* records and leaves them as they are
HtmlReportWrite(recs) == {[raised |-> b, records |-> recs] : b \in BOOLEAN}

\* a skip that writes both artifacts, empty, and says nothing
WriteEmptyArtifacts ==
    /\ artifacts' = {"csv", "report"}
    /\ UNCHANGED <<log, records>>

\* run_all, lines 144-147: without a record nothing is written, which is
\* logged
SkipWrite ==
    /\ log' = log \cup {Msg("skip_write", <<>>)}
    /\ UNCHANGED <<artifacts, records>>

\* a CSV failure that leaves run_all: the report is not attempted
WriteStopsAtCsvFailure ==
    \E c \in WriteCsv(records) :
      IF c.raised
      THEN /\ artifacts' = {}
           /\ log' = log \cup {Msg("csv_failed", <<>>)}
           /\ records' = c.records
      ELSE \E h \in HtmlReportWrite(c.records) :
             /\ artifacts' = {"csv"} \cup (IF h.raised THEN {} ELSE {"report"})
             /\ log' = log \cup (IF h.raised THEN {Msg("report_failed", <<>>)} ELSE {})
             /\ records' = h.records

\* run_all, lines 149-152, _write_csv, lines 375-406, and _write_report,
\* lines 419-439: each of the two catches and logs its own failure, so the
\* report is attempted whatever the CSV writer did
WriteBoth ==
    \E c \in WriteCsv(records) :
      \E h \in HtmlReportWrite(c.records) :
        /\ artifacts' = (IF c.raised THEN {} ELSE {"csv"})
                            \cup (IF h.raised THEN {} ELSE {"report"})
        /\ log' = log \cup (IF c.raised THEN {Msg("csv_failed", <<>>)} ELSE {})
                      \cup (IF h.raised THEN {Msg("report_failed", <<>>)} ELSE {})
        /\ records' = h.records

\* run_all, lines 144-157: the end of the batch. run_all leaves by the bare
\* return of line 147 or by the end of its body, which both hand back None.
\* Then _worker_run, line 876: run_all has returned and "done" is queued for
\* the GUI
WriteStep ==
    /\ pc = "write"
    /\ IF records = <<>> THEN SkipWrite ELSE WriteBoth
    /\ run_result' = PyNone
    /\ msg_queue' = Append(msg_queue, "done")
    /\ pc' = "idle"
    /\ UNCHANGED <<run_btn, stop_btn, dash_runner, flagVars, loopVars, runVars,
                   stop_clicked>>
    /\ UNCHANGED unitVars

Next ==
    \/ OnRun
    \/ OnStop
    \/ PollMsgs
    \/ WorkerStart
    \/ DatasetStep
    \/ ModelStep
    \/ PromptStep
    \/ SampleStep
    \/ WriteStep

Spec == Init /\ [][Next]_vars

(***************************************************************************)
(* parse_verdict and Metrics.add called on their own.                      *)
(***************************************************************************)
\* the lines the texts handed to parse_verdict are made of
L_safe_word == <<"S", "A", "F", "E">>
L_vulnerable_word == <<"V", "u", "l", "n", "e", "r", "a", "b", "l", "e", ".">>
L_blank == <<" ", " ">>
L_two_labels == <<"S", "A", "F", "E", " ", "V", "U", "L", "N", "E", "R", "A", "B", "L", "E">>
L_marker_vulnerable ==
    << "F", "i", "n", "a", "l", " ", "a", "n", "s", "w", "e", "r", ":", " ", "V", "U", "L",
       "N", "E", "R", "A", "B", "L", "E" >>
L_marker_safe == <<"v", "e", "r", "d", "i", "c", "t", " ", ":", " ", "s", "a", "f", "e", "!">>
L_marker_sentence ==
    << "F", "i", "n", "a", "l", " ", "a", "n", "s", "w", "e", "r", ":", " ", "t", "h", "i",
       "s", " ", "c", "o", "d", "e", " ", "i", "s", " ", "n", "o", "t", " ", "s", "a", "f",
       "e" >>
L_marker_extra ==
    << "l", "a", "b", "e", "l", ":", " ", "s", "a", "f", "e", "?", " ", "u", "n", "s", "a",
       "f", "e" >>
L_not_vulnerable == <<"n", "o", "t", " ", "v", "u", "l", "n", "e", "r", "a", "b", "l", "e">>
L_no_known ==
    << "n", "o", " ", "k", "n", "o", "w", "n", " ", "v", "u", "l", "n", "e", "r", "a", "b",
       "i", "l", "i", "t", "i", "e", "s" >>
L_secure == <<"i", "t", " ", "i", "s", " ", "s", "e", "c", "u", "r", "e">>
L_at_risk ==
    << "e", "x", "p", "l", "o", "i", "t", "a", "b", "l", "e", ",", " ", "a", "t", " ", "r",
       "i", "s", "k" >>
L_neutral == <<"m", "a", "y", "b", "e">>

LinePool ==
    {L_safe_word, L_vulnerable_word, L_blank, L_two_labels, L_marker_vulnerable,
     L_marker_safe, L_marker_sentence, L_marker_extra, L_not_vulnerable, L_no_known,
     L_secure, L_at_risk, L_neutral}

\* the lines joined by line breaks
RECURSIVE JoinLines(_)
JoinLines(ls) ==
    IF Len(ls) = 0 THEN <<>>
    ELSE IF Len(ls) = 1 THEN ls[1]
    ELSE ls[1] \o <<"\n">> \o JoinLines(Tail(ls))

\* the arguments parse_verdict is called with: a text of up to MaxLines
\* lines, or None
ParserCalls ==
    {[fn |-> "parse_verdict", t |-> "str", lines |-> ls] :
        ls \in UNION {[1..n -> LinePool] : n \in 0..MaxLines}}
      \cup {[fn |-> "parse_verdict", t |-> "NoneType", lines |-> <<>>]}

\* the Python value of the argument
RawText(c) == IF c.t = "str" THEN PyStr(JoinLines(c.lines)) ELSE PyNone

ParserInit ==
    /\ RunnerInit
    /\ call \in ParserCalls
    /\ returned = NoResult
    /\ adds = NoAdds

\* parse_verdict(text) returns
ParseCall ==
    /\ call.fn = "parse_verdict"
    /\ returned = NoResult
    /\ returned' = parse_verdict(RawText(call))
    /\ UNCHANGED <<call, adds, dashVars, flagVars, pc, loopVars, runVars, records, log,
                   artifacts, run_result, stop_clicked>>

ParserSpec == ParserInit /\ [][ParseCall]_vars

\* the Metrics objects add is called on: counters up to MaxCount; Unknown is
\* never written and stays 0; compute has not run, the derived metrics are 0.0
MetricsValues ==
    [TP : 0..MaxCount, TN : 0..MaxCount, FP : 0..MaxCount, FN : 0..MaxCount,
     Incorrect : 0..MaxCount, UNFN : 0..MaxCount, Unknown : {0},
     Accuracy : {Zero}, Precision : {Zero}, Recall : {Zero}, F1 : {Zero},
     Effective_F1 : {Zero}, Abstention : {Zero}, Coverage : {Zero}]

\* gold labels: the two classes, the fallback "unknown", "" of a dict without
\* a label and "none" of a sequence whose label is None
GoldValues == {safe, vulnerable, unknown, <<>>, <<"n", "o", "n", "e">>}

\* predicted labels: the three verdicts, the literal of the third branch and
\* a string that is none of them
PredValues == {safe, vulnerable, unknown, Unknwon, <<"m", "a", "y", "b", "e">>}

MetricsCalls ==
    {[fn |-> "add", m |-> mm, gold |-> g, pred |-> p] :
        mm \in MetricsValues, g \in GoldValues, p \in PredValues}

MetricsInit ==
    /\ RunnerInit
    /\ call \in MetricsCalls
    /\ returned = NoResult
    /\ adds = NoAdds

\* m.add(gold, pred) returns: the object after the call
AddCall ==
    /\ call.fn = "add"
    /\ returned = NoResult
    /\ returned' = MetricsAdd(call.m, call.gold, call.pred)
    /\ UNCHANGED <<call, adds, dashVars, flagVars, pc, loopVars, runVars, records, log,
                   artifacts, run_result, stop_clicked>>

MetricsSpec == MetricsInit /\ [][AddCall]_vars

\* how often add was called
TotalAdds(ad) ==
    LET RECURSIVE Sum(_)
        Sum(S) == IF S = {} THEN 0
                  ELSE LET pr == CHOOSE x \in S : TRUE IN ad[pr] + Sum(S \ {pr})
    IN  Sum(AddPairs)

\* a fresh Metrics()
AccumulatorInit ==
    /\ RunnerInit
    /\ call = [fn |-> "Metrics"]
    /\ returned = NoResult
    /\ adds = NoAdds

\* the frame of a call on the Metrics object: m is the only runner variable
\* it touches
accFrame == <<dashVars, flagVars, pc, loopVars, dataset, i, preds, gen_cfg, attempts, last,
              work,
              records, log, artifacts, run_result, stop_clicked>>

\* m.add(gold, pred), as _run_single calls it: before compute
AccAdd ==
    /\ call.fn \in {"Metrics", "add"}
    /\ TotalAdds(adds) < MaxAdds
    /\ \E gold \in AddGolds, pred \in AddPreds :
         /\ m' = MetricsAdd(m, gold, pred)
         /\ adds' = [adds EXCEPT ![<<gold, pred>>] = @ + 1]
         /\ call' = [fn |-> "add"]
    /\ UNCHANGED returned
    /\ UNCHANGED accFrame

\* m.compute(), once the calls of add are over
AccCompute ==
    /\ call.fn \in {"Metrics", "add"}
    /\ m' = MetricsCompute(m)
    /\ call' = [fn |-> "compute"]
    /\ UNCHANGED <<returned, adds>>
    /\ UNCHANGED accFrame

\* m.to_dict() after compute: the dict is returned, the object is only read
AccToDict ==
    /\ call.fn = "compute"
    /\ returned' = MetricsToDict(m)
    /\ call' = [fn |-> "to_dict"]
    /\ UNCHANGED <<m, adds>>
    /\ UNCHANGED accFrame

AccumulatorNext == AccAdd \/ AccCompute \/ AccToDict

AccumulatorSpec == AccumulatorInit /\ [][AccumulatorNext]_vars

(***************************************************************************)
(* code_datasets/dataset_loader.py: load_dataset called on its own, together *)
(* with the readers it dispatches to.                                      *)
(***************************************************************************)
\* every runner and dashboard variable: a call of a function on its own leaves
\* them all alone
runnerFrame == <<dashVars, flagVars, pc, loopVars, runVars, records, log, artifacts,
                 run_result, stop_clicked>>

\* d.get(key, default) of a dict
DictGet(d, key, default) == IF key \in DOMAIN d THEN d[key] ELSE default

\* the dict that has the keys K of full
Restrict(full, K) == [k \in K |-> full[k]]

N_toy == <<"t", "o", "y">>
N_cvefixes_local == <<"C", "V", "E", "f", "i", "x", "e", "s", "_", "l", "o", "c", "a", "l">>
N_cvefixes == <<"C", "V", "E", "f", "i", "x", "e", "s">>
N_bigvul == <<"b", "i", "g", "v", "u", "l">>
N_vul4j == <<"v", "u", "l", "4", "j">>
N_unknown == <<"u", "n", "k", "n", "o", "w", "n">>
P_given == <<"d", "a", "t", "a", "/", "x">>
P_data == <<"d", "a", "t", "a", "/">>
P_csv == <<".", "c", "s", "v">>

LoaderNames == {N_toy, N_cvefixes_local, N_cvefixes, N_bigvul}
LoaderSources == {"local", "huggingface", "s3"}
LoaderPaths == {PyNone, PyStr(<<>>), PyStr(P_given)}

\* the dicts a caller may pass: any of the keys source, name and path
LoaderDicts ==
    { Restrict(full, K) :
        full \in [source : LoaderSources, name : LoaderNames, path : LoaderPaths],
        K \in SUBSET {"source", "name", "path"} }

\* the entries config.yaml may hold for a dataset name
ConfigEntries ==
    { Restrict(full, K) :
        full \in [source : LoaderSources, path : LoaderPaths],
        K \in SUBSET {"source", "path"} }

\* what reading an existing file or folder, or a download, gives
ReadOutcomes ==
    {[raised |-> FALSE, value |-> rows] : rows \in DatasetPool \cup {<<>>}}
        \cup {[raised |-> TRUE, exc |-> "OSError", msg |-> <<>>]}

\* load_dataset(cfg_or_name) with what it finds around it: whether config.yaml
\* lists the name (and how), whether the path exists on disk, whether the
\* Hugging Face login succeeds, and what reading gives
LoaderCalls ==
    {[fn |-> "load_dataset", arg |-> [t |-> "dict", v |-> d], listed |-> FALSE,
      entry |-> <<>>, exists |-> e, login |-> TRUE, read |-> rd] :
        d \in LoaderDicts, e \in BOOLEAN, rd \in ReadOutcomes}
    \cup
    {[fn |-> "load_dataset", arg |-> PyStr(n), listed |-> ls, entry |-> en, exists |-> e,
      login |-> lg, read |-> rd] :
        n \in LoaderNames, ls \in BOOLEAN, en \in ConfigEntries, e \in BOOLEAN,
        lg \in BOOLEAN, rd \in ReadOutcomes}

Raise(exc, msg) == [raised |-> TRUE, exc |-> exc, msg |-> msg]
Return(value) == [raised |-> FALSE, value |-> value]

\* dataset_loader.py, lines 121-142: source, name and path of the request
NormalizeInput(c) ==
    IF c.arg.t = "dict"
    THEN [src |-> DictGet(c.arg.v, "source", "local"),
          name |-> DictGet(c.arg.v, "name", N_unknown),
          path |-> DictGet(c.arg.v, "path", PyNone)]
    ELSE IF c.listed
         THEN [src |-> DictGet(c.entry, "source", "local"),
               name |-> c.arg.v,
               path |-> DictGet(c.entry, "path", PyNone)]
         ELSE [src |-> IF LowerStr(c.arg.v) \in {LowerStr(N_cvefixes), N_bigvul, N_vul4j}
                       THEN "huggingface"
                       ELSE "local",
               name |-> c.arg.v,
               path |-> PyNone]

\* hf_loader.load_hf_dataset: login, the repository of the name, the download
LoadHfDataset(name, c) ==
    IF ~c.login
    THEN Raise("RuntimeError", <<"Failed to log into Hugging Face">>)
    ELSE IF LowerStr(name) \notin {LowerStr(N_cvefixes), N_bigvul, N_vul4j}
         THEN Raise("ValueError", <<"Unsupported dataset", LowerStr(name)>>)
         ELSE c.read

\* toy_dataset.load_toy: [] without a path or without the file, else its rows
LoadToy(path, c) ==
    IF ~Truthy(PyStr(path)) \/ ~c.exists THEN Return(<<>>) ELSE c.read

\* _local_cve_dataset_loader.load_cvefixes_dataset: Path(None) is a TypeError,
\* Path("") is the working directory, a folder that is not there a ValueError
LoadCvefixesDataset(path, c) ==
    IF path.t = "NoneType"
    THEN Raise("TypeError", <<>>)
    ELSE IF ~(path.v = <<>> \/ c.exists)
         THEN Raise("ValueError", <<"CVEfixes source path does not exist", path.v>>)
         ELSE c.read

\* dataset_loader.load_dataset, lines 144-183
load_dataset(c) ==
    LET n == NormalizeInput(c)
    IN  IF n.src = "huggingface"
        THEN LoadHfDataset(n.name, c)
        ELSE IF n.src = "local"
             THEN IF StartsAt(LowerStr(n.name), 1, LowerStr(N_cvefixes))
                  THEN LoadCvefixesDataset(n.path, c)
                  ELSE LoadToy(IF Truthy(n.path) THEN n.path.v
                                                ELSE P_data \o n.name \o P_csv, c)
             ELSE Raise("ValueError", <<"Unknown dataset source", n.src>>)

LoaderInit ==
    /\ RunnerInit
    /\ call \in LoaderCalls
    /\ returned = NoResult
    /\ adds = NoAdds

\* load_dataset(cfg_or_name) returns or raises
LoadDatasetCall ==
    /\ call.fn = "load_dataset"
    /\ returned = NoResult
    /\ returned' = load_dataset(call)
    /\ UNCHANGED <<call, adds>>
    /\ UNCHANGED runnerFrame

LoaderSpec == LoaderInit /\ [][LoadDatasetCall]_vars

(***************************************************************************)
(* models/ollama_model.py and models/api_model.py: generate called by the  *)
(* runner for one sample, with the sample scored on what it hands back.    *)
(***************************************************************************)
PyDict(d) == [t |-> "dict", v |-> d]
PyList(l) == [t |-> "list", v |-> l]
PyInt == [t |-> "int", v |-> <<>>]

\* the texts a backend may send: each is one of Responses once stripped
T_safe_padded == <<" ", "S", "A", "F", "E", "\n">>
T_maybe == <<"m", "a", "y", "b", "e">>
T_blank == <<" ", " ">>

GeneratedTexts == {PyStr(T_safe_padded), PyStr(T_maybe), PyStr(T_blank), PyStr(<<>>)}

\* what may stand where the text is expected
TextSlots == GeneratedTexts \cup {PyNone, PyInt}

\* the JSON values response.json() may give
JsonBodies ==
    {PyDict(<<>>), PyList(<<>>), PyNone, PyStr(T_maybe)}
        \cup {PyDict([response |-> x]) : x \in TextSlots}
        \cup {PyDict([choices |-> c]) :
                c \in {PyList(<<>>), PyList(<<PyDict(<<>>)>>), PyList(<<PyNone>>), PyNone,
                       PyDict(<<>>)}
                        \cup {PyList(<<PyDict([text |-> x])>>) : x \in TextSlots}}

\* what requests.post meets: no answer at all, or an answer with a status and
\* a body that is JSON or not
NetOutcomes ==
    {[kind |-> k, status |-> 0, json |-> FALSE, body |-> PyNone] :
        k \in {"ConnectionError", "Timeout"}}
        \cup {[kind |-> "response", status |-> st, json |-> FALSE, body |-> PyNone] :
                st \in {200, 404, 500}}
        \cup {[kind |-> "response", status |-> st, json |-> TRUE, body |-> b] :
                st \in {200, 404, 500}, b \in JsonBodies}

BackendCalls ==
    {[fn |-> "generate", backend |-> b, net |-> n] :
        b \in {"ollama", "api"}, n \in NetOutcomes}

\* ollama_model.py, line 94: data.get("response", "").strip(); anything that
\* is not a dict holding a string makes it raise
OllamaText(data) ==
    IF data.t # "dict"
    THEN Raise("AttributeError", <<>>)
    ELSE LET x == DictGet(data.v, "response", PyStr(<<>>))
         IN  IF x.t = "str" THEN Return(PyStr(Strip(x.v))) ELSE Raise("AttributeError", <<>>)

\* api_model.py, line 95: result.get("choices", [{}])[0].get("text", "").strip()
ApiText(result) ==
    IF result.t # "dict"
    THEN Raise("AttributeError", <<>>)
    ELSE LET choices == DictGet(result.v, "choices", PyList(<<PyDict(<<>>)>>))
         IN  IF choices.t = "dict" THEN Raise("KeyError", <<>>)
             ELSE IF choices.t # "list" THEN Raise("TypeError", <<>>)
             ELSE IF choices.v = <<>> THEN Raise("IndexError", <<>>)
             ELSE IF choices.v[1].t # "dict" THEN Raise("AttributeError", <<>>)
             ELSE LET x == DictGet(choices.v[1].v, "text", PyStr(<<>>))
                  IN  IF x.t = "str" THEN Return(PyStr(Strip(x.v)))
                      ELSE Raise("AttributeError", <<>>)

\* the body of the try block: post, raise_for_status, json, the text
TryGenerate(c) ==
    IF c.net.kind # "response" THEN Raise(c.net.kind, <<>>)
    ELSE IF c.net.status >= 400 THEN Raise("HTTPError", <<>>)
    ELSE IF ~c.net.json THEN Raise("JSONDecodeError", <<>>)
    ELSE IF c.backend = "ollama" THEN OllamaText(c.net.body)
    ELSE ApiText(c.net.body)

\* generate without its except clause: what the try block raises gets out
GenerateUncaught(c) == TryGenerate(c)

\* OllamaModel.generate, lines 84-99, and APIModel.generate, lines 70-100:
\* except Exception: return ""
Generate(c) ==
    LET tried == TryGenerate(c)
    IN  IF tried.raised THEN Return(PyStr(<<>>)) ELSE tried

\* the runner in the middle of a batch, before the first of two samples of
\* the one combination selected
BackendInit ==
    /\ run_btn = FALSE
    /\ stop_btn = TRUE
    /\ dash_runner = 1
    /\ msg_queue = <<>>
    /\ stop_flag = [r \in RunnerIds |-> FALSE]
    /\ stop_requested = [r \in RunnerIds |-> FALSE]
    /\ self_gen_cfg = UiCfg
    /\ pc = "samples"
    /\ sel = [datasets |-> <<1>>, models |-> <<1>>, prompts |-> <<"zero_shot">>]
    /\ di = 1 /\ mi = 1 /\ pi = 1
    /\ dataset \in {d \in DatasetPool : \A k \in 1..Len(d) : ~ExtractGold(d[k]).raised}
    /\ i = 1
    /\ m = NewMetrics
    /\ preds = <<>>
    /\ gen_cfg = self_gen_cfg
    /\ records = <<>>
    /\ log = {Msg("loading", <<1>>), Msg("loaded", <<1>>),
              Msg("running", <<1, 1, "zero_shot">>)}
    /\ artifacts = {}
    /\ run_result = NoResult
    /\ stop_clicked = FALSE
    /\ attempts = <<>>
    /\ last = NoLast
    /\ work = Len(dataset)
    /\ call \in BackendCalls
    /\ returned = NoResult
    /\ adds = NoAdds

\* model.generate(prompt) returns to the runner
GenerateCall ==
    /\ call.fn = "generate"
    /\ returned = NoResult
    /\ returned' = Generate(call)
    /\ UNCHANGED <<call, adds>>
    /\ UNCHANGED runnerFrame

\* _run_single, lines 264 and 295-322, on what generate handed back: an exception
\* skips the sample, a return value is parsed, counted and logged
ScoreGenerated ==
    /\ call.fn = "generate"
    /\ returned # NoResult
    /\ pc = "samples"
    /\ i <= Len(dataset)
    /\ IF returned.raised
       THEN SkipSample(TRUE, TRUE, 2)
       ELSE ScoreSample(ExtractGold(dataset[i]).gold, returned.value, TRUE, TRUE, 2)
    /\ call' = [call EXCEPT !.fn = "scored"]
    /\ UNCHANGED <<returned, adds>>
    /\ UNCHANGED <<dashVars, flagVars, sel, di, mi, dataset, work, artifacts, run_result,
                   stop_clicked>>

BackendNext == GenerateCall \/ ScoreGenerated

BackendSpec == BackendInit /\ [][BackendNext]_vars

(***************************************************************************)
(* prompts/self_consistency.py: SelfConsistency.apply called on its own,   *)
(* one step per call of model.generate.                                    *)
(***************************************************************************)
UpperCh(c) == IF IsLower(c) THEN Uppers[CHOOSE k \in 1..Len(Lowers) : Lowers[k] = c] ELSE c

\* str.upper
UpperStr(s) == [k \in 1..Len(s) |-> UpperCh(s[k])]

\* str.strip(chars): the characters of cs are taken off both ends
RECURSIVE StripChars(_, _)
StripChars(s, cs) ==
    IF s = <<>> THEN s
    ELSE IF s[1] \in cs THEN StripChars(Tail(s), cs)
    ELSE IF s[Len(s)] \in cs THEN StripChars(SubSeq(s, 1, Len(s) - 1), cs)
    ELSE s

SC_SAFE == <<"S", "A", "F", "E">>
SC_VULNERABLE == <<"V", "U", "L", "N", "E", "R", "A", "B", "L", "E">>
SC_UNKNOWN == <<"U", "N", "K", "N", "O", "W", "N">>

R_safe_colon == <<"S", "a", "f", "e", ":", " ", "o", "k">>
R_reasoned_vulnerable ==
    <<"1", ")", " ", "x", "\n", "\n", " ", "v", "u", "l", "n", "e", "r", "a", "b", "l", "e",
      ".", "\n">>
R_safe_then_text == <<"S", "A", "F", "E", "\n", "m", "a", "y", "b", "e">>

\* what model.generate may return to a template (besides raising)
ScResponses ==
    {PyStr(<<>>), PyNone, PyStr(T_blank), PyStr(T_maybe), PyStr(SC_SAFE),
     PyStr(R_safe_colon), PyStr(R_reasoned_vulnerable), PyStr(R_safe_then_text)}

\* the characters of .strip(":\uff0c\u3002."): colon, fullwidth comma,
\* ideographic full stop and full stop (the two wide ones by code point)
LabelTrim == {":", "U+FF0C", "U+3002", "."}

\* _try_templates, lines 113-129: the label read off one result; UNKNOWN
\* stands for going on to the next template
TemplateLabel(result) ==
    IF ~Truthy(result)
    THEN SC_UNKNOWN
    ELSE LET lines == StrippedLines(Strip(result.v))
             lastLine == IF lines = <<>> THEN <<>> ELSE lines[Len(lines)]
             word == IF lastLine = <<>> THEN <<>> ELSE SplitWords(lastLine)[1]
             first == UpperStr(StripChars(word, LabelTrim))
         IN  IF first \in {SC_SAFE, SC_VULNERABLE} THEN first ELSE SC_UNKNOWN

\* the number of votes for a label
VotesFor(votes, label) == Cardinality({k \in 1..Len(votes) : votes[k] = label})

\* the label with the fewest votes
LeastCommon(votes) ==
    IF VotesFor(votes, SC_SAFE) < VotesFor(votes, SC_VULNERABLE) /\ VotesFor(votes, SC_SAFE) > 0
    THEN SC_SAFE
    ELSE IF VotesFor(votes, SC_VULNERABLE) > 0 /\ VotesFor(votes, SC_SAFE) > 0
         THEN SC_VULNERABLE
         ELSE votes[1]

\* collections.Counter(votes).most_common(1)[0][0]: of two labels with as
\* many votes the one that was voted first
MostCommon(votes) ==
    IF VotesFor(votes, SC_SAFE) > VotesFor(votes, SC_VULNERABLE) THEN SC_SAFE
    ELSE IF VotesFor(votes, SC_VULNERABLE) > VotesFor(votes, SC_SAFE) THEN SC_VULNERABLE
    ELSE votes[1]

NoPrev == [round |-> 0, tpl |-> 0, label |-> <<>>]

\* apply(model, code, gen_cfg) at its first round; n is int(gen_cfg["sc_samples"])
VotingCalls ==
    {[fn |-> "sc_apply", n |-> n, round |-> 1, tpl |-> 1, votes |-> <<>>, calls |-> 0,
      prev |-> NoPrev] : n \in 0..sc_samples}

VotingInit ==
    /\ RunnerInit
    /\ call \in VotingCalls
    /\ returned = NoResult
    /\ adds = NoAdds

\* lines 66-79 and 110-132: the next template of the round is sent to the
\* model; templates 1..direct_templates are the direct ones. A label ends the
\* round with a vote, the last template without a label ends it without one,
\* and an exception of generate leaves apply
ScGenerate ==
    /\ call.fn = "sc_apply"
    /\ returned = NoResult
    /\ call.round <= call.n
    /\ \/ /\ returned' = Raise("Exception", <<>>)
          /\ call' = [call EXCEPT !.calls = @ + 1]
       \/ \E result \in ScResponses :
            LET label == TemplateLabel(result)
                endsRound == label # SC_UNKNOWN
                               \/ call.tpl = direct_templates + reasoning_templates
            IN  /\ call' = [call EXCEPT
                              !.calls = @ + 1,
                              !.votes = IF label # SC_UNKNOWN THEN Append(@, label) ELSE @,
                              !.round = IF endsRound THEN @ + 1 ELSE @,
                              !.tpl = IF endsRound THEN 1 ELSE @ + 1,
                              !.prev = [round |-> call.round, tpl |-> call.tpl,
                                        label |-> label]]
                /\ UNCHANGED returned
    /\ UNCHANGED adds
    /\ UNCHANGED runnerFrame

\* lines 82-86: the rounds are over
ScReturn ==
    /\ call.fn = "sc_apply"
    /\ returned = NoResult
    /\ call.round > call.n
    /\ returned' = Return(PyStr(IF call.votes = <<>> THEN SC_UNKNOWN
                                ELSE MostCommon(call.votes)))
    /\ UNCHANGED <<call, adds>>
    /\ UNCHANGED runnerFrame

VotingNext == ScGenerate \/ ScReturn

VotingSpec == VotingInit /\ [][VotingNext]_vars

(***************************************************************************)
(* core/runner.py: one ExperimentRunner object that its holder calls       *)
(* run_all on again and again, and whose flags and gen_cfg the holder may  *)
(* set at any moment.                                                      *)
(***************************************************************************)
\* ExperimentRunner.__init__, lines 38-72: the object exists, its flags are
\* False, nothing has run
ReuseInit ==
    /\ run_btn = FALSE
    /\ stop_btn = FALSE
    /\ dash_runner = 1
    /\ msg_queue = <<>>
    /\ stop_flag = [r \in RunnerIds |-> FALSE]
    /\ stop_requested = [r \in RunnerIds |-> FALSE]
    /\ self_gen_cfg = UiCfg
    /\ pc = "idle"
    /\ sel = [datasets |-> <<>>, models |-> <<>>, prompts |-> <<>>]
    /\ di = 0 /\ mi = 0 /\ pi = 0
    /\ dataset = <<>>
    /\ i = 0
    /\ m = NewMetrics
    /\ preds = <<>>
    /\ gen_cfg = NoCfg
    /\ records = <<>>
    /\ log = {}
    /\ artifacts = {}
    /\ run_result = NoResult
    /\ stop_clicked = FALSE
    /\ attempts = <<>>
    /\ last = NoLast
    /\ work = 0
    /\ call = NoCall
    /\ returned = NoResult
    /\ adds = NoAdds

\* what a call of run_all starts from, whatever it does to self.records: the
\* arguments (any selection for the first call, the same again for a later
\* one), the loop at the first dataset, and nothing logged, written or
\* returned by this call yet (the message of the call before has been taken)
EnterRunAll ==
    /\ pc = "idle"
    /\ IF sel.datasets = <<>>
       THEN \E s \in Selections :
              /\ InOptionOrder(s.prompts)
              /\ sel' = s
       ELSE UNCHANGED sel
    /\ di' = 1 /\ mi' = 0 /\ pi' = 0
    /\ dataset' = <<>>
    /\ log' = {}
    /\ artifacts' = {}
    /\ run_result' = NoResult
    /\ msg_queue' = <<>>
    /\ pc' = "datasets"
    /\ UNCHANGED <<run_btn, stop_btn, dash_runner, self_gen_cfg, i, m, preds, gen_cfg,
                   attempts, last, work, stop_clicked>>
    /\ UNCHANGED unitVars

\* a run_all that starts by setting both flags to False
CallRunAllClearsFlags ==
    /\ EnterRunAll
    /\ records' = <<>>
    /\ stop_flag' = [stop_flag EXCEPT ![Runner] = FALSE]
    /\ stop_requested' = [stop_requested EXCEPT ![Runner] = FALSE]

\* a run_all that goes on appending to the records it has
CallRunAllKeepsRecords ==
    /\ EnterRunAll
    /\ UNCHANGED <<records, stop_flag, stop_requested>>

\* run_all, lines 75-89: a call on the runner that exists; self.records = []
\* and the flags are left as they are
CallRunAll ==
    /\ EnterRunAll
    /\ records' = <<>>
    /\ UNCHANGED <<stop_flag, stop_requested>>

\* the holder of the runner sets one of its two flags
SetStop ==
    /\ \/ /\ ~stop_flag[Runner]
          /\ stop_flag' = [stop_flag EXCEPT ![Runner] = TRUE]
          /\ UNCHANGED stop_requested
       \/ /\ ~stop_requested[Runner]
          /\ stop_requested' = [stop_requested EXCEPT ![Runner] = TRUE]
          /\ UNCHANGED stop_flag
    /\ UNCHANGED <<dashVars, self_gen_cfg, pc, loopVars, runVars, records, log, artifacts,
                   run_result, stop_clicked>>
    /\ UNCHANGED unitVars

\* the holder of the runner assigns to keys of runner.gen_cfg, as the
\* dashboard does with gen_cfg.update (ui/dashboard.py, lines 855-863)
SetGenCfg ==
    /\ \E g \in GenCfgs \ {self_gen_cfg} : self_gen_cfg' = g
    /\ UNCHANGED <<dashVars, stop_flag, stop_requested, pc, loopVars, runVars, records, log,
                   artifacts, run_result, stop_clicked>>
    /\ UNCHANGED unitVars

ReuseNext ==
    \/ CallRunAll
    \/ SetStop
    \/ DatasetStep
    \/ ModelStep
    \/ PromptStep
    \/ SampleStep
    \/ WriteStep

ReuseSpec == ReuseInit /\ [][ReuseNext]_vars

\* the first call of run_all on the runner
FirstRunAll ==
    /\ sel.datasets = <<>>
    /\ CallRunAll

\* one batch on a runner whose gen_cfg its holder changes while it runs and
\* after it
ConfigNext ==
    \/ FirstRunAll
    \/ SetGenCfg
    \/ DatasetStep
    \/ ModelStep
    \/ PromptStep
    \/ SampleStep
    \/ WriteStep

ConfigSpec == ReuseInit /\ [][ConfigNext]_vars

\* run_all and what it calls, lines 75-157: the steps of the thread that
\* runs the batch
WorkerStep ==
    \/ DatasetStep
    \/ ModelStep
    \/ PromptStep
    \/ SampleStep
    \/ WriteStep

\* one call of run_all that nobody stops
RunToEndNext ==
    \/ FirstRunAll
    \/ DatasetStep
    \/ ModelStep
    \/ PromptStep
    \/ SampleStep
    \/ WriteStep

\* run_all is one thread of straight-line Python: while it has a next
\* statement it executes it, and every call it makes to a collaborator
\* returns or raises. Whether run_all is ever called is left open.
RunToEndSpec == ReuseInit /\ [][RunToEndNext]_vars /\ WF_vars(WorkerStep)

(***************************************************************************)
(* The properties.                                                         *)
(***************************************************************************)
\* the six exported counters of a run record
RecordCounterSum(r) == r.TP + r.TN + r.FP + r.FN + r.Incorrect + r.UNFN

\* the log entries of one kind
Logged(kind) == {e \in log : e.kind = kind}

\* the step scored a sample: one more entry in the predictions log
Scored == pc = "samples" /\ Len(preds') = Len(preds) + 1

\* C1: in every run record the six counters TP, TN, FP, FN, Incorrect and
\* UNFN add up to the number of samples scored, the length of the record's
\* predictions log.
C1_CountersSumToScored ==
    \A k \in 1..Len(records) :
        RecordCounterSum(records[k]) = Len(records[k].predictions)

\* C2: Metrics.add with pred = unknown adds one to Incorrect when gold is
\* safe and one to UNFN when gold is anything else.
C2_UnknownIsCounted ==
    [][ (Scored /\ preds'[Len(preds')].pred = unknown)
            => IF preds'[Len(preds')].gold = safe
               THEN m'.Incorrect = m.Incorrect + 1
               ELSE m'.UNFN = m.UNFN + 1 ]_vars

\* C3: when the flag is set while a run is inside a dataset, the run's next
\* step starts no further sample and appends a record whose total_samples is
\* the full dataset length, whose predictions are exactly the samples scored
\* so far and whose counters are those reached so far.
C3_StopMidDataset ==
    [][ (pc = "samples" /\ i <= Len(dataset) /\ StopSeen)
            => /\ Len(records') = Len(records) + 1
               /\ LET r == records'[Len(records')]
                  IN  /\ r.total_samples = Len(dataset)
                      /\ r.predictions = preds
                      /\ \A k \in 1..Len(r.predictions) : r.predictions[k].id < i
                      /\ Len(r.predictions) < r.total_samples
                      /\ <<r.TP, r.TN, r.FP, r.FN, r.Incorrect, r.UNFN>>
                             = <<m.TP, m.TN, m.FP, m.FN, m.Incorrect, m.UNFN>>
                      /\ RecordCounterSum(r) <= Len(r.predictions)
               /\ \A k \in 1..Len(records) : records'[k] = records[k] ]_vars

\* a run of two samples was stopped at its second sample and its record
\* holds the one sample scored before
C3_Witness ==
    /\ Msg("stopped_at_sample", <<2, 2>>) \in log
    /\ records # <<>>
    /\ records[Len(records)].total_samples = 2
    /\ Len(records[Len(records)].predictions) = 1

\* C4: once the flag is set, run_all loads no further dataset and starts no
\* further (dataset, model, prompt) combination, wherever in the iteration
\* the flag became set.
C4_NothingStartedAfterStop ==
    [][ (pc \in {"datasets", "models", "prompts", "samples"} /\ StopSeen)
            => /\ Logged("loading")' \subseteq Logged("loading")
               /\ Logged("running")' \subseteq Logged("running")
               /\ work' = work
               /\ pc' = "samples" => pc = "samples" ]_vars

\* the flag ended a batch that had a record, with a dataset still to come
C4_Witness ==
    /\ pc = "write"
    /\ StopSeen
    /\ records # <<>>
    /\ di <= Len(sel.datasets)
    /\ Msg("stopped_before_dataset", CurDataset) \in log

\* C5: a stop request made from the dashboard at any time after a run was
\* started is observed by the runner that executes that run.
C5_StopReachesRunner ==
    (stop_clicked /\ pc \in {"datasets", "models", "prompts", "samples"}) => StopSeen

\* C6: when a combination raises, run_all logs the error, adds no record for
\* the combination, keeps the records collected so far and goes on with the
\* next prompt of the same dataset and model.
C6_FailureIsolated ==
    [][ (/\ pc \in {"prompts", "samples"}
         /\ pi <= Len(sel.prompts)
         /\ Msg("error_run", Combo) \in log' \ log)
            => /\ records' = records
               /\ \A k \in 1..Len(records') :
                     <<records'[k].dataset, records'[k].model, records'[k].prompt>> # Combo
               /\ pc' = "prompts"
               /\ <<di', mi', pi'>> = <<di, mi, pi + 1>> ]_vars

\* a batch ended with a failed combination and with a record collected
\* before the failure and one collected after it
C6_Witness ==
    /\ pc = "write"
    /\ \E e \in Logged("error_run") :
         \/ \E k \in 1..Len(records) : records[k].dataset > e.what[1]
         \/ \E k \in 1..Len(records) :
               records[k].dataset = e.what[1] /\ records[k].prompt # e.what[3]

\* C7: a dataset whose load raised is named in the log, no combination runs
\* for it, and every combination of each dataset that loaded with samples
\* still runs: three datasets, one model, one prompt and one load failure
\* give two records.
C7_LoadFailureSkipsOneDataset ==
    /\ \A e \in Logged("failed_load") :
         /\ e.what[1] \in {sel.datasets[k] : k \in 1..Len(sel.datasets)}
         /\ \A f \in Logged("running") : f.what[1] # e.what[1]
         /\ \A k \in 1..Len(records) : records[k].dataset # e.what[1]
    /\ (pc = "write" /\ ~StopSeen)
         => \A d \in 1..Len(sel.datasets) :
              \/ Msg("failed_load", <<sel.datasets[d]>>) \in log
              \/ Msg("no_samples", <<sel.datasets[d]>>) \in log
              \/ \A a \in 1..Len(sel.models), b \in 1..Len(sel.prompts) :
                    Msg("running", <<sel.datasets[d], sel.models[a], sel.prompts[b]>>) \in log
    /\ (/\ pc = "write" /\ ~StopSeen
        /\ Len(sel.datasets) = 3 /\ Len(sel.models) = 1 /\ Len(sel.prompts) = 1
        /\ Cardinality(Logged("failed_load")) = 1
        /\ Logged("no_samples") = {} /\ Logged("error_run") = {})
         => Len(records) = 2

\* three datasets, one model and one prompt were selected, one load failed
\* and the batch ended with the two records of the other datasets
C7_Witness ==
    /\ pc = "write"
    /\ Len(sel.datasets) = 3 /\ Len(sel.models) = 1 /\ Len(sel.prompts) = 1
    /\ Cardinality(Logged("failed_load")) = 1
    /\ Len(records) = 2
    /\ \A e \in Logged("failed_load"), k \in 1..Len(records) : records[k].dataset # e.what[1]

\* C8: a sample whose prompting or generation raised adds nothing to the
\* counters and nothing to the predictions log, the run goes on with the next
\* sample, and no sample index is taken up twice in a run.
C8_SkippedOnceAndUncounted ==
    /\ \A a, b \in 1..Len(attempts) : a < b => attempts[a] < attempts[b]
    /\ \A a, b \in 1..Len(preds) : a < b => preds[a].id < preds[b].id
    /\ \A k \in 1..Len(preds) : \E a \in 1..Len(attempts) : attempts[a] = preds[k].id
    /\ CounterSum(m) + m.Unknown <= Len(preds)
    /\ last.outcome = "skipped"
         => /\ pc = "samples"
            /\ i = last.idx + 1
            /\ attempts # <<>> /\ attempts[Len(attempts)] = last.idx
            /\ \A k \in 1..Len(preds) : preds[k].id # last.idx
            /\ CounterSum(m) + m.Unknown <= Len(attempts) - 1

\* the first sample of a run was skipped and the run went on to score the
\* second
C8_Witness ==
    /\ pc = "samples"
    /\ attempts = <<1, 2>>
    /\ Len(preds) = 1
    /\ preds[1].id = 2
    /\ last.outcome = "scored"

\* C9: an empty or falsy response is parsed to unknown, appended to the
\* predictions log with pred = unknown and counted as an abstention: Incorrect
\* or UNFN goes up by one.
C9_FalsyResponseIsAbstention ==
    [][ (pc = "samples" /\ last'.outcome = "scored" /\ last'.idx = i /\ ~Truthy(last'.pred))
            => /\ Scored
               /\ preds'[Len(preds')].pred = unknown
               /\ m'.Incorrect + m'.UNFN = m.Incorrect + m.UNFN + 1 ]_vars

\* C10: the result of the self-consistency strategy is the final verdict
\* text: the runner appends no instruction suffix to it and does not send it
\* to the model again.
C10_VotingResultNotResent ==
    last.prompt = "self_consistency" => (~last.suffixed /\ ~last.sent)

\* C11: a sample scored with a single-prompt strategy had exactly one prompt
\* sent to the model: model.generate was called once for it.
C11_OnePromptPerSample ==
    (last.outcome = "scored" /\ last.prompt \in {"zero_shot", "few_shot", "cot"})
        => last.calls = 1

\* C12: sample extraction never raises: for every sample the run stands at,
\* a gold label is obtained and the run goes on to the prompting step.
C12_ExtractionNeverRaises ==
    (pc = "samples" /\ i >= 1 /\ i <= Len(dataset)) => ~ExtractGold(dataset[i]).raised

\* what the lines of the pool are: blank, a one-word label, a full marker
\* line, and the cues each one holds
BlankLines == {L_blank}
SafeWordLines == {L_safe_word}
VulnerableWordLines == {L_vulnerable_word}
SafeMarkerLines == {L_marker_safe}
VulnerableMarkerLines == {L_marker_vulnerable}
NearMarkerLines == {L_marker_sentence, L_marker_extra}
SeveralWordLines == LinePool \ {L_blank, L_safe_word, L_vulnerable_word, L_neutral}

Cues(ln) ==
    CASE ln = L_safe_word -> {"safe"}
      [] ln = L_vulnerable_word -> {"vulnerable"}
      [] ln = L_two_labels -> {"safe", "vulnerable"}
      [] ln = L_marker_vulnerable -> {"vulnerable"}
      [] ln = L_marker_safe -> {"safe"}
      [] ln = L_marker_sentence -> {"not safe", "safe"}
      [] ln = L_marker_extra -> {"safe", "unsafe"}
      [] ln = L_not_vulnerable -> {"not vulnerable", "vulnerable"}
      [] ln = L_no_known -> {"no vulnerability", "vulnerability"}
      [] ln = L_secure -> {"secure"}
      [] ln = L_at_risk -> {"exploitable", "at risk"}
      [] OTHER -> {}

\* parse_verdict was called on a text and has returned
Parsed == call.fn = "parse_verdict" /\ call.t = "str" /\ returned # NoResult

\* the non-blank lines of the text
TextLines == SelectSeq(call.lines, LAMBDA ln : ln \notin BlankLines)

\* the first non-blank line is a one-word label
FirstLineIsLabel ==
    Len(TextLines) > 0 /\ TextLines[1] \in SafeWordLines \cup VulnerableWordLines

\* the label of the last full marker line of the text, <<>> when there is none
LastMarker ==
    LET ks == {k \in 1..Len(TextLines) :
                  TextLines[k] \in SafeMarkerLines \cup VulnerableMarkerLines}
    IN  IF ks = {} THEN <<>>
        ELSE LET k == CHOOSE x \in ks : \A y \in ks : y <= x
             IN  IF TextLines[k] \in SafeMarkerLines THEN safe ELSE vulnerable

\* the decision of the claim over the cues of the text
CueDecision ==
    LET cues == UNION {Cues(TextLines[k]) : k \in 1..Len(TextLines)}
        negating == cues \cap {"not vulnerable", "no vulnerability"} # {}
        vulnerable_signal ==
            /\ cues \cap {"not safe", "unsafe", "vulnerable", "vulnerability",
                          "exploitable", "at risk"} # {}
            /\ ~negating
        positive_safe ==
            /\ (cues \cap {"safe", "secure"} # {} \/ negating)
            /\ cues \cap {"not safe", "unsafe"} = {}
    IN  IF vulnerable_signal /\ ~positive_safe THEN vulnerable
        ELSE IF positive_safe /\ ~vulnerable_signal THEN safe
        ELSE unknown

\* C13: a text whose first non-empty line is the single word SAFE or
\* VULNERABLE, in any case and with attached punctuation, is parsed to that
\* label whatever the later lines hold.
C13_FirstLineWins ==
    (Parsed /\ FirstLineIsLabel)
        => returned = (IF TextLines[1] \in SafeWordLines THEN safe ELSE vulnerable)

\* the first line says SAFE, a later line is a marker line for VULNERABLE,
\* and the text was parsed to safe
C13_Witness ==
    Parsed /\ call.lines = <<L_safe_word, L_marker_vulnerable>> /\ returned = safe

\* C14: a first non-empty line of two or more words gives no tier-1 verdict:
\* the text is decided by the marker lines and, without one, by the cues.
C14_SeveralWordsNotTier1 ==
    (Parsed /\ Len(TextLines) > 0 /\ TextLines[1] \in SeveralWordLines)
        => returned = (IF LastMarker # <<>> THEN LastMarker ELSE CueDecision)

\* the text SAFE VULNERABLE was parsed to unknown
C14_Witness ==
    Parsed /\ call.lines = <<L_two_labels>> /\ returned = unknown

\* C15: when the first line is no one-word label, the text is parsed to the
\* label of the full marker line closest to its end.
C15_LastMarkerWins ==
    (Parsed /\ Len(TextLines) > 0 /\ ~FirstLineIsLabel /\ LastMarker # <<>>)
        => returned = LastMarker

\* a marker line for safe is followed by one for vulnerable and the text was
\* parsed to vulnerable
C15_Witness ==
    Parsed /\ call.lines = <<L_marker_safe, L_marker_vulnerable>> /\ returned = vulnerable

\* C16: a marker line with words between the colon and the label, or after
\* the label, is no tier-2 match: without a full marker line the text is
\* decided by its cues, and 'Final answer: this code is not safe' is parsed
\* to vulnerable.
C16_NearMarkerFallsThrough ==
    /\ (/\ Parsed /\ ~FirstLineIsLabel /\ LastMarker = <<>>
        /\ \E k \in 1..Len(TextLines) : TextLines[k] \in NearMarkerLines)
         => returned = CueDecision
    /\ (Parsed /\ TextLines = <<L_marker_sentence>>) => returned = vulnerable

\* the text 'Final answer: this code is not safe' was parsed to vulnerable
C16_Witness ==
    Parsed /\ call.lines = <<L_marker_sentence>> /\ returned = vulnerable

\* C17: when neither the first-line rule nor a marker line decides, the
\* result is the decision over the cue flags: vulnerable iff vulnerable_signal
\* and not positive_safe, safe iff positive_safe and not vulnerable_signal,
\* unknown otherwise.
C17_CueDecision ==
    (Parsed /\ Len(TextLines) > 0 /\ ~FirstLineIsLabel /\ LastMarker = <<>>)
        => /\ returned = CueDecision
           /\ TextLines = <<L_not_vulnerable>> => returned = safe
           /\ TextLines = <<L_secure, L_at_risk>> => returned = unknown

\* a text with a safe cue and an un-negated vulnerable cue was parsed to
\* unknown
C17_Witness ==
    Parsed /\ call.lines = <<L_secure, L_at_risk>> /\ returned = unknown

\* C18: parse_verdict returns one of safe, vulnerable, unknown for every
\* input, None and blank text included, and unknown for a text without a
\* non-empty line.
C18_ParserTotal ==
    (call.fn = "parse_verdict" /\ returned # NoResult)
        => /\ returned \in {safe, vulnerable, unknown}
           /\ (call.t = "str" /\ Len(TextLines) = 0) => returned = unknown
           /\ call.t = "NoneType" => returned = unknown

\* None was parsed to unknown
C18_Witness ==
    call.fn = "parse_verdict" /\ call.t = "NoneType" /\ returned = unknown

\* Metrics.add was called and has returned
Added == call.fn = "add" /\ returned # NoResult

\* the counters of the six that differ between the object before the call
\* and after it
ChangedCounters ==
    {c \in {"TP", "TN", "FP", "FN", "Incorrect", "UNFN"} : returned[c] # call.m[c]}

\* counter c alone went up, by one
OnlyPlusOne(c) ==
    /\ ChangedCounters = {c}
    /\ returned[c] = call.m[c] + 1
    /\ returned.Unknown = call.m.Unknown

\* C19: add with pred = vulnerable increments TP when gold = vulnerable and
\* FP for every other gold; with pred = safe it increments TN when gold =
\* safe and FN for every other gold; only that counter changes, by one.
C19_BinaryPredictionsCounted ==
    /\ (Added /\ call.pred = vulnerable)
         => OnlyPlusOne(IF call.gold = vulnerable THEN "TP" ELSE "FP")
    /\ (Added /\ call.pred = safe)
         => OnlyPlusOne(IF call.gold = safe THEN "TN" ELSE "FN")

\* pred = safe with a gold label that is no class was counted as FN
C19_Witness ==
    /\ Added
    /\ call.pred = safe
    /\ call.gold \notin {safe, vulnerable}
    /\ returned.FN = call.m.FN + 1

\* C20: add with a predicted value outside safe, vulnerable, unknown counts
\* it as unknown: Incorrect goes up by one when gold = safe, UNFN otherwise.
C20_OtherPredictionCounted ==
    (Added /\ call.pred \notin {safe, vulnerable, unknown})
        => OnlyPlusOne(IF call.gold = safe THEN "Incorrect" ELSE "UNFN")

\* compute has run on the Metrics object
Computed == call.fn \in {"compute", "to_dict"}

\* the fraction x is n / d, and 0 when d is 0
IsRatio(x, n, d) ==
    /\ x.den > 0
    /\ IF d = 0 THEN x.num = 0 ELSE x.num * d = n * x.den

ExampleAdds ==
    [pr \in AddPairs |->
        IF pr = <<vulnerable, vulnerable>> THEN 3
        ELSE IF pr = <<safe, safe>> THEN 2
        ELSE IF pr = <<safe, vulnerable>> THEN 1
        ELSE IF pr = <<vulnerable, safe>> THEN 1
        ELSE IF pr = <<safe, unknown>> THEN 1
        ELSE IF pr = <<vulnerable, unknown>> THEN 2
        ELSE 0]

\* C22: after compute Abstention is (Incorrect+UNFN) over the sum of the six
\* counters, 0 when that sum is 0; after the calls of the example it is 3/9.
C22_AbstentionRatio ==
    /\ Computed => IsRatio(m.Abstention, m.Incorrect + m.UNFN, CounterSum(m))
    /\ (Computed /\ adds = ExampleAdds) => IsRatio(m.Abstention, 3, 9)

\* the calls of add that passed a verdict of safe or vulnerable
BinaryAdds(ad) ==
    TotalAdds([pr \in AddPairs |-> IF pr[2] \in {safe, vulnerable} THEN ad[pr] ELSE 0])

\* C23: after compute, on an object that calls of add have built up, Coverage
\* is 1 - Abstention, both lie between 0 and 1, and Coverage is the share of
\* the scored samples whose verdict was safe or vulnerable.
C23_CoverageIsBinaryShare ==
    Computed =>
        /\ m.Coverage.den > 0 /\ m.Abstention.den > 0
        /\ m.Coverage.num * m.Abstention.den
              = (m.Abstention.den - m.Abstention.num) * m.Coverage.den
        /\ 0 <= m.Abstention.num /\ m.Abstention.num <= m.Abstention.den
        /\ 0 <= m.Coverage.num /\ m.Coverage.num <= m.Coverage.den
        /\ TotalAdds(adds) > 0
              => IsRatio(m.Coverage, BinaryAdds(adds), TotalAdds(adds))

Counters == {"TP", "TN", "FP", "FN", "Incorrect", "UNFN"}

\* C26: no call on a Metrics object lowers one of its six counters, and
\* compute and to_dict leave all six as they are.
C26_CountersNeverDecrease ==
    [][/\ \A c \in Counters : m'[c] >= m[c]
       /\ call'.fn \in {"compute", "to_dict"} => \A c \in Counters : m'[c] = m[c]]_vars

\* to_dict has returned on an object with counts in both abstention counters
C26_Witness ==
    /\ call.fn = "to_dict"
    /\ m.TP > 0 /\ m.Incorrect > 0 /\ m.UNFN > 0
    /\ \A c \in Counters : returned[c] = m[c]

\* the Metrics object a fresh one becomes when add is called with the first
\* k entries of a predictions log, in order
RECURSIVE Replay(_, _)
Replay(predictions, k) ==
    IF k = 0 THEN NewMetrics
    ELSE MetricsAdd(Replay(predictions, k - 1), predictions[k].gold, predictions[k].pred)

\* C25: for every run record, add(gold, pred) called on a fresh Metrics for
\* each entry of the record's predictions log, in order, gives the six
\* counters the record holds.
C25_ReplayGivesCounters ==
    \A k \in 1..Len(records) :
        LET r == records[k]
            again == Replay(r.predictions, Len(r.predictions))
        IN  \A c \in Counters : again[c] = r[c]

\* a record of two predictions, one of them counted as a false negative
C25_Witness ==
    \E k \in 1..Len(records) :
        /\ Len(records[k].predictions) = 2
        /\ records[k].FN = 1
        /\ RecordCounterSum(records[k]) >= 1

\* the lists sorted() can give for labels out of safe, unknown, vulnerable:
\* in the order of Python's strings, none twice
SortedLabelLists ==
    { <<>>, <<safe>>, <<unknown>>, <<vulnerable>>, <<safe, unknown>>,
      <<safe, vulnerable>>, <<unknown, vulnerable>>, <<safe, unknown, vulnerable>> }

\* C27: in every run record unique_pred_labels is a sorted list without
\* duplicates of labels out of safe, vulnerable, unknown, every pred of the
\* predictions log is one of the three, and unique_pred_labels is empty
\* exactly when the predictions log is.
C27_UniqueLabelsSorted ==
    \A k \in 1..Len(records) :
        LET r == records[k]
            logged == {r.predictions[n].pred : n \in 1..Len(r.predictions)}
            listed == {r.unique_pred_labels[n] : n \in 1..Len(r.unique_pred_labels)}
        IN  /\ r.unique_pred_labels \in SortedLabelLists
            /\ logged \subseteq {safe, vulnerable, unknown}
            /\ listed = logged
            /\ (r.unique_pred_labels = <<>>) <=> (r.predictions = <<>>)

\* a record whose log has vulnerable before safe, listed as safe, vulnerable
C27_Witness ==
    \E k \in 1..Len(records) :
        /\ Len(records[k].predictions) = 2
        /\ records[k].predictions[1].pred = vulnerable
        /\ records[k].predictions[2].pred = safe
        /\ records[k].unique_pred_labels = <<safe, vulnerable>>

\* run_all has returned to the worker and the GUI has not yet taken the
\* completion message
BatchOver == pc = "idle" /\ msg_queue # <<>>

\* C28: a batch that ends without a run record writes no CSV and no report
\* and logs that the writing was skipped.
C28_NoRecordsNoArtifacts ==
    (BatchOver /\ records = <<>>)
        => /\ artifacts = {}
           /\ Msg("skip_write", <<>>) \in log

\* a batch in which one dataset failed to load and a combination raised ended
\* without a record
C28_Witness ==
    /\ BatchOver
    /\ records = <<>>
    /\ Logged("failed_load") # {}
    /\ Logged("error_run") # {}
    /\ Msg("skip_write", <<>>) \in log

\* C29: the end of a batch with records leaves the records as they are
\* whatever the two writers do, run_all returns to the worker, and after a
\* failed CSV write the report is still attempted.
C29_WriteFailureKeepsRecords ==
    [][(pc = "write" /\ pc' # "write" /\ records # <<>>)
          => /\ records' = records
             /\ pc' = "idle"
             /\ msg_queue' = Append(msg_queue, "done")
             /\ Msg("csv_failed", <<>>) \in log'
                  => \/ "report" \in artifacts'
                     \/ Msg("report_failed", <<>>) \in log']_vars

\* the CSV write failed and the report was written, with the records kept
C29_Witness ==
    /\ BatchOver
    /\ records # <<>>
    /\ Msg("csv_failed", <<>>) \in log
    /\ artifacts = {"report"}

\* C30: run_all returns the run records of the batch, whether there are some
\* or none.
C30_RunAllReturnsRecords ==
    BatchOver => run_result = [t |-> "list", v |-> records]

C36_ValidSamplesAreBinaryCounts ==
    \A k \in 1..Len(records) :
        LET r == records[k]
        IN  /\ r.valid_samples = r.TP + r.TN + r.FP + r.FN
            /\ r.valid_samples
                  = Cardinality({n \in 1..Len(r.predictions) :
                                    r.predictions[n].pred \in {safe, vulnerable}})

\* a record of two predictions of which one is unknown and one is counted
C36_Witness ==
    \E k \in 1..Len(records) :
        /\ Len(records[k].predictions) = 2
        /\ \E n \in 1..2 : records[k].predictions[n].pred = unknown
        /\ records[k].valid_samples = 1

\* the ids of a predictions log rise strictly and lie in 1..total
InDatasetOrder(predictions, total) ==
    /\ \A n \in 1..Len(predictions) : predictions[n].id \in 1..total
    /\ \A a, b \in 1..Len(predictions) : a < b => predictions[a].id < predictions[b].id
    /\ Len(predictions) <= total

\* C37: the predictions log is in dataset order: ids rise strictly within
\* 1..total_samples, so none comes twice and the log is no longer than the
\* dataset; a sample just scored is logged under its own position, and a
\* skipped or unreached position is not in the log.
C37_LogInDatasetOrder ==
    /\ \A k \in 1..Len(records) :
          InDatasetOrder(records[k].predictions, records[k].total_samples)
    /\ pc = "samples" =>
          /\ InDatasetOrder(preds, Len(dataset))
          /\ \A n \in 1..Len(preds) : preds[n].id < i
          /\ last.outcome = "scored" => preds[Len(preds)].id = last.idx
          /\ last.outcome = "skipped" => \A n \in 1..Len(preds) : preds[n].id # last.idx

\* a record over two samples whose first was skipped: its one prediction has
\* id 2
C37_Witness ==
    \E k \in 1..Len(records) :
        /\ records[k].total_samples = 2
        /\ Len(records[k].predictions) = 1
        /\ records[k].predictions[1].id = 2

\* the local resource of a request is missing: no path and no file under the
\* default name, or a path that is not on disk
LocalResourceMissing(c) ==
    LET n == NormalizeInput(c)
    IN  /\ n.src = "local"
        /\ \/ n.path.t = "NoneType" /\ ~c.exists
           \/ n.path.t = "str" /\ n.path.v # <<>> /\ ~c.exists

\* C33: load_dataset raises an error that names the source when the source is
\* unknown, and returns [] without raising whenever the local resource of a
\* local dataset is missing, CVE-style folder datasets included.
C33_MissingLocalIsEmpty ==
    (call.fn = "load_dataset" /\ returned # NoResult) =>
        LET n == NormalizeInput(call)
        IN  /\ n.src \notin {"local", "huggingface"} =>
                 returned = Raise("ValueError", <<"Unknown dataset source", n.src>>)
            /\ LocalResourceMissing(call) => returned = Return(<<>>)

\* the two halves of C33 that the code keeps: the error for an unknown source,
\* and [] for a missing CSV of a dataset that is not CVE-style
C33_HoldsOutsideCveFolders ==
    (call.fn = "load_dataset" /\ returned # NoResult) =>
        LET n == NormalizeInput(call)
        IN  /\ n.src \notin {"local", "huggingface"} =>
                 returned = Raise("ValueError", <<"Unknown dataset source", n.src>>)
            /\ (LocalResourceMissing(call)
                  /\ ~StartsAt(LowerStr(n.name), 1, LowerStr(N_cvefixes)))
                 => returned = Return(<<>>)

\* the request failed: no answer, an HTTP error status, a body that is not
\* JSON, or JSON without a text where the backend's API puts it
RequestFailed(c) ==
    \/ c.net.kind # "response"
    \/ c.net.status >= 400
    \/ ~c.net.json
    \/ c.net.body.t # "dict"
    \/ /\ c.backend = "ollama"
       /\ "response" \in DOMAIN c.net.body.v
       /\ c.net.body.v.response.t # "str"
    \/ /\ c.backend = "api"
       /\ "choices" \in DOMAIN c.net.body.v
       /\ LET ch == c.net.body.v.choices
          IN  \/ ch.t # "list"
              \/ ch.v = <<>>
              \/ ch.v[1].t # "dict"
              \/ "text" \in DOMAIN ch.v[1].v /\ ch.v[1].v.text.t # "str"

\* C32: generate of a backend does not raise for a request error, an HTTP
\* error status or a malformed response: it returns "", and the runner then
\* parses that to unknown and logs the sample as a prediction, not as skipped.
C32_FailureScoredUnknown ==
    (call.fn \in {"generate", "scored"} /\ returned # NoResult /\ RequestFailed(call)) =>
        /\ returned = Return(PyStr(<<>>))
        /\ call.fn = "scored" =>
             /\ last.outcome = "scored"
             /\ last.verdict = unknown
             /\ Len(preds) = 1
             /\ preds[1].id = last.idx
             /\ preds[1].pred = unknown
             /\ attempts = <<1>>

\* an HTTP 500 answered by the API backend has been scored
C32_Witness ==
    /\ call.fn = "scored"
    /\ call.backend = "api"
    /\ call.net.kind = "response"
    /\ call.net.status = 500
    /\ preds # <<>>

\* C34: apply runs sc_samples rounds, each with the direct templates first
\* and a reasoning template only after the direct ones of the round gave no
\* label, and with one vote at most; it returns UNKNOWN exactly when no round
\* gave a vote, and otherwise a label no other label has more votes than.
C34_MajorityOfValidVotes ==
    call.fn = "sc_apply" =>
        /\ Len(call.votes) <= call.round - 1
        /\ \A k \in 1..Len(call.votes) : call.votes[k] \in {SC_SAFE, SC_VULNERABLE}
        /\ call.tpl > direct_templates =>
             /\ call.prev.round = call.round
             /\ call.prev.tpl = call.tpl - 1
             /\ call.prev.label = SC_UNKNOWN
        /\ call.prev.label \in {SC_SAFE, SC_VULNERABLE} =>
             /\ call.votes # <<>>
             /\ call.votes[Len(call.votes)] = call.prev.label
             /\ call.round = call.prev.round + 1
        /\ (returned # NoResult /\ ~returned.raised) =>
             /\ call.round = call.n + 1
             /\ returned.value = PyStr(SC_UNKNOWN) <=> call.votes = <<>>
             /\ call.votes # <<>> =>
                  /\ returned.value.v \in {SC_SAFE, SC_VULNERABLE}
                  /\ \A other \in {SC_SAFE, SC_VULNERABLE} :
                       VotesFor(call.votes, returned.value.v) >= VotesFor(call.votes, other)

\* five rounds returned VULNERABLE on three votes against two, the first vote
\* being SAFE
C34_Witness ==
    /\ call.fn = "sc_apply"
    /\ returned = Return(PyStr(SC_VULNERABLE))
    /\ call.n = sc_samples
    /\ VotesFor(call.votes, SC_SAFE) = 2
    /\ VotesFor(call.votes, SC_VULNERABLE) = 3
    /\ call.votes[1] = SC_SAFE

\* one apply of self-consistency makes at most 4 x sc_samples model calls
ApplyCallsBounded ==
    call.fn = "sc_apply" =>
        call.calls <= (direct_templates + reasoning_templates) * call.n

\* a record as a reader sees it: params is what its dict reference leads to
RecordView(r, g) == [r EXCEPT !.params = Deref(@, g)]

\* C31: each _run_single starts with a fresh Metrics, an empty predictions
\* log and the contents of the runner's gen_cfg at that moment, and no step,
\* be it a later combination or an assignment to keys of the runner's
\* gen_cfg, changes the metrics, predictions or params of a record that is
\* already in the list.
C31_CollectedRecordsFrozen ==
    [][/\ \A k \in 1..Len(records) :
            k <= Len(records') =>
                RecordView(records'[k], self_gen_cfg') = RecordView(records[k], self_gen_cfg)
       /\ (pc = "prompts" /\ pc' = "samples") =>
            /\ m' = NewMetrics
            /\ preds' = <<>>
            /\ gen_cfg' = self_gen_cfg]_vars

\* a record with predictions is in the list, the runner's gen_cfg has been
\* changed since, and a later combination has been recorded with the new
\* settings
C31_Witness ==
    /\ Len(records) >= 2
    /\ records[1].predictions # <<>>
    /\ RecordView(records[1], self_gen_cfg).params = UiCfg
    /\ RecordView(records[2], self_gen_cfg).params = OtherCfg

\* the flags of the runner in use never go from set to clear
FlagsKept ==
    /\ stop_flag[Runner] => stop_flag'[Runner]
    /\ stop_requested[Runner] => stop_requested'[Runner]

\* this call of run_all has loaded no dataset, started no combination (hence
\* called no model), has no record and has written nothing
Quiet ==
    /\ records = <<>>
    /\ artifacts = {}
    /\ Logged("loading") = {}
    /\ Logged("running") = {}
    /\ last = NoLast

PromptPlace(name) == CHOOSE k \in 1..Len(sel.prompts) : sel.prompts[k] = name
Place(r) == <<r.dataset, r.model, PromptPlace(r.prompt)>>
Before(a, b) ==
    \/ a[1] < b[1]
    \/ a[1] = b[1] /\ a[2] < b[2]
    \/ a[1] = b[1] /\ a[2] = b[2] /\ a[3] < b[3]

LoopPosition ==
    IF pc = "datasets" THEN <<di, 0, 0, 0>>
    ELSE IF pc = "models" THEN <<di, mi, 0, 0>>
    ELSE IF pc = "prompts" THEN <<di, mi, pi, 0>>
    ELSE IF pc = "samples" THEN <<di, mi, pi, i>>
    ELSE <<0, 0, 0, 0>>

InLoops == pc \in {"datasets", "models", "prompts", "samples"}

Earlier(a, b) ==
    \/ a[1] < b[1]
    \/ a[1] = b[1] /\ a[2] < b[2]
    \/ a[1] = b[1] /\ a[2] = b[2] /\ a[3] < b[3]
    \/ a[1] = b[1] /\ a[2] = b[2] /\ a[3] = b[3] /\ a[4] < b[4]

=============================================================================
